---- MODULE Spec2Model ----
(***************************************************************************)
(* Model of the near-duplicate ingestion pipeline of src/v1/qdrant/src:    *)
(* LogIngestionHtbridHandler (insert_logs, clear, reset), the two stores   *)
(* it writes (the vector store behind VectorStore, the lookup table behind *)
(* LookupDbStore) and the MinHash fingerprinter (LSHMinHashEmbedder).      *)
(*                                                                         *)
(* Similarities are scaled by 100 (1.0 is 100, 0.97 is 97).                *)
(***************************************************************************)
EXTENDS Integers, Sequences, FiniteSets, TLC

\* ------------------------------------------------------------------ bounds

\* Longest batch handed to insert_logs.
MaxBatch == 2

\* The wall clock reads 1..MaxTime and stays at MaxTime once it gets there.
MaxTime == 2

\* Longest raw text handed to the fingerprinter.
MaxLen == 3

\* Largest shingle_size, num_hashes (and bands) and seed a constructor is given.
MaxShingle == 2
MaxHashes == 4
MaxSeed == 1

\* Number of callers that share one fingerprinter.
NumCallers == 2

\* Width in bits of a shingle hash and of a signature slot (32 in the code).
HashBits == 4

\* Least length of a token that RE_LONG_ALNUM masks (12 in the code).
LongTokenLen == 3

\* The shingle hashes and signature slots compared are drawn from 0..MaxValue,
\* the signatures compared have at most MaxSigLen slots.
MaxValue == 2
MaxSigLen == 2

\* A filter expression has at most MaxNodes nodes, logical and atomic.
MaxNodes == 3

\* The list of specs handed to the filter compiler has at most MaxSpecs specs.
MaxSpecs == 2

\* ------------------------------------------------------- program constants

\* self.insert_sim_threshold (0.9, scaled by 100).
insert_sim_threshold == 90

\* ------------------------------------------------------------ dictionaries
\* A Python dict is a sequence of <<key, value>> pairs in insertion order;
\* values are kept as the text repr() prints for them.

DictHas(d, k) == \E i \in 1..Len(d) : d[i][1] = k

DictGet(d, k, default) ==
    IF DictHas(d, k)
    THEN d[CHOOSE i \in 1..Len(d) : d[i][1] = k][2]
    ELSE default

\* d[k] = v : an existing key keeps its position, a new key is appended.
DictSet(d, k, v) ==
    IF DictHas(d, k)
    THEN [i \in 1..Len(d) |-> IF d[i][1] = k THEN <<k, v>> ELSE d[i]]
    ELSE Append(d, <<k, v>>)

\* ------------------------------------------------------------------ inputs

\* An Insertable's insert_timestamp is a clock reading or None.
NoTimestamp == 0 - 1

MetaPlain  == << <<"timestamp", "ts0">>, <<"pod_name", "p1">> >>
MetaSynced == << <<"timestamp", "ts0">>, <<"pod_name", "p1">>, <<"sim_sync", "True">> >>

\* The log entries a caller may submit: E1 (also with a sim_sync flag of the
\* caller's), E2 a near-duplicate of E1 (0.97), E3 at exactly the threshold
\* from E1 (0.90) and far from E2 (0.50).
Entry(text, metadata) ==
    [text |-> text, metadata |-> metadata, insert_timestamp |-> NoTimestamp]

Entries ==
    { Entry("E1", MetaPlain), Entry("E1", MetaSynced),
      Entry("E2", MetaPlain), Entry("E3", MetaPlain) }

Batches == UNION { [1..n -> Entries] : n \in 0..MaxBatch }

\* ------------------------------------------------------------ vector store

\* LshEmbedder.embed: the signature vector of a text, named by its class.
Embed(text) ==
    CASE text = "E1" -> "v1"
      [] text = "E2" -> "v2"
      [] text = "E3" -> "v3"
      [] text = "" -> "v0"

\* The score the engine reports for a query vector against a stored vector
\* (cosine, symmetric, 100 for identical vectors).
Score(u, v) ==
    IF u = v THEN 100
    ELSE IF {u, v} = {"v1", "v2"} THEN 97
    ELSE IF {u, v} = {"v1", "v3"} THEN 90
    ELSE 50

Insertable(text, metadata, insert_timestamp) ==
    [text |-> text, metadata |-> metadata, insert_timestamp |-> insert_timestamp]

\* hash_text_to_string: md5 of the formatted string, taken as collision free:
\* the digest is named by the string it digests.
hash_text_to_string(s) == <<"md5", s>>

\* As if the insert_timestamp were part of the hashed string.
VS_hash_with_timestamp(insertable) ==
    hash_text_to_string(<<insertable.text, insertable.metadata, insertable.insert_timestamp>>)

\* VectorStore._hash: f"{insertable.text}-{insertable.metadata}".
VS_hash(insertable) ==
    hash_text_to_string(<<insertable.text, insertable.metadata>>)

\* client.upsert of one point: a point with the same id is replaced.
Upsert(pts, p) == {q \in pts : q.id # p.id} \cup {p}

ScoredPoint(vec, p) ==
    [id |-> p.id, score |-> Score(vec, p.vector), payload |-> p.payload]

\* query_points with limit k: the k best points, best first; ties are the
\* engine's choice.
Ranked(vec, k, pts) ==
    LET n == IF Cardinality(pts) < k THEN Cardinality(pts) ELSE k
    IN  { [i \in 1..n |-> ScoredPoint(vec, s[i])] :
            s \in { t \in [1..n -> pts] :
                     /\ \A i, j \in 1..n :
                           i < j => /\ t[i] # t[j]
                                    /\ Score(vec, t[i].vector) >= Score(vec, t[j].vector)
                     /\ \A p \in pts :
                           (\A i \in 1..n : t[i] # p)
                              => \A i \in 1..n :
                                    Score(vec, t[i].vector) >= Score(vec, p.vector) } }

\* A QueryResponse; isNone marks the None that insert_logs substitutes.
Response(pts) == [isNone |-> FALSE, points |-> pts]
NoneResponse == [isNone |-> TRUE, points |-> <<>>]

\* query_batch_points: one response per query, in order.
SearchBatch(queries, k, pts) ==
    { r \in [1..Len(queries) ->
               UNION { {Response(x) : x \in Ranked(Embed(queries[i]), k, pts)} :
                         i \in 1..Len(queries) }] :
        \A i \in 1..Len(queries) :
            r[i].points \in Ranked(Embed(queries[i]), k, pts) }

\* ------------------------------------------------------------ lookup store

LookupRecord(id, closest_log_id, similarity, timestamp, location) ==
    [id |-> id, closest_log_id |-> closest_log_id, similarity |-> similarity,
     timestamp |-> timestamp, location |-> location]

\* As if the statement ended ON CONFLICT (id) DO UPDATE.
insert_or_update_lookup_db(table, row) ==
    {r \in table : r.id # row.id} \cup {row}

\* As if only canonical entries were recorded.
insert_canonical_only(table, row) ==
    IF row.closest_log_id # row.id \/ \E r \in table : r.id = row.id
    THEN table
    ELSE table \cup {row}

\* LookupDbStore.insert_into_lookup_db, when the statement succeeds:
\* INSERT ... ON CONFLICT (id) DO NOTHING.
insert_into_lookup_db(table, row) ==
    IF \E r \in table : r.id = row.id THEN table ELSE table \cup {row}

\* ------------------------------------------------ MinHash fingerprinter
\* LSHMinHashEmbedder with its numbers scaled down: hashes are HashBits wide
\* where the code's are 32 bits wide, and the prime is the first one above
\* 2^HashBits, as 4294967311 is the first one above 2^32.

Pow2(n) == 2 ^ n

\* self._max_hash = (1 << 32) - 1
max_hash == Pow2(HashBits) - 1

IsPrime(n) == n > 1 /\ \A d \in 2..(n - 1) : n % d # 0

\* self._prime = 4294967311
prime ==
    CHOOSE q \in (Pow2(HashBits) + 1)..Pow2(HashBits + 1) :
        /\ IsPrime(q)
        /\ \A m \in (Pow2(HashBits) + 1)..(q - 1) : ~IsPrime(m)

\* The characters of the raw texts, and those the masks write.
Chars == {"a", "A", " ", "1"}

Texts == UNION { [1..n -> Chars] : n \in 0..MaxLen }

\* \d and \w of the regular expressions, on these characters.
IsDigit(c) == c = "1"
IsWordChar(c) == c \in {"a", "A", "1", "i", "d", "_"}
IsLetter(c) == c \in {"a", "A", "i", "d"}

\* str.lower()
Lower(s) == [i \in 1..Len(s) |-> IF s[i] = "A" THEN "a" ELSE s[i]]

\* The last index of the run of digits that starts at i.
RECURSIVE DigitRunEnd(_, _)
DigitRunEnd(s, i) ==
    IF i < Len(s) /\ IsDigit(s[i + 1]) THEN DigitRunEnd(s, i + 1) ELSE i

\* RE_NUM.sub("<id>", s) from index i on: \b\d+\b matches a run of digits
\* with no word character on either side.
RECURSIVE RE_NUM_sub(_, _)
RE_NUM_sub(s, i) ==
    IF i > Len(s) THEN <<>>
    ELSE IF IsDigit(s[i]) /\ (i = 1 \/ ~IsWordChar(s[i - 1]))
    THEN LET j == DigitRunEnd(s, i)
         IN  IF j = Len(s) \/ ~IsWordChar(s[j + 1])
             THEN <<"<", "i", "d", ">">> \o RE_NUM_sub(s, j + 1)
             ELSE SubSeq(s, i, j) \o RE_NUM_sub(s, j + 1)
    ELSE <<s[i]>> \o RE_NUM_sub(s, i + 1)

\* re.sub(r"\s+", " ", s)
RECURSIVE SqueezeSpaces(_, _)
SqueezeSpaces(s, i) ==
    IF i > Len(s) THEN <<>>
    ELSE IF s[i] = " " /\ i > 1 /\ s[i - 1] = " "
    THEN SqueezeSpaces(s, i + 1)
    ELSE <<s[i]>> \o SqueezeSpaces(s, i + 1)

\* str.strip(), after the squeeze: at most one space at either end.
Strip(s) ==
    LET t == IF s # <<>> /\ s[1] = " " THEN Tail(s) ELSE s
    IN  IF t # <<>> /\ t[Len(t)] = " " THEN SubSeq(t, 1, Len(t) - 1) ELSE t

\* The last index of the run of word characters that starts at i.
RECURSIVE WordRunEnd(_, _)
WordRunEnd(s, i) ==
    IF i < Len(s) /\ IsWordChar(s[i + 1]) THEN WordRunEnd(s, i + 1) ELSE i

\* RE_LONG_ALNUM.sub("<id>", s) from index i on: the pattern matches a whole
\* token of at least LongTokenLen characters when a letter and a digit occur
\* somewhere from the start of the token to the end of the text (the two
\* lookaheads (?=.*[A-Za-z])(?=.*\d) read on past the token).
RECURSIVE RE_LONG_ALNUM_sub(_, _)
RE_LONG_ALNUM_sub(s, i) ==
    IF i > Len(s) THEN <<>>
    ELSE IF IsWordChar(s[i]) /\ (i = 1 \/ ~IsWordChar(s[i - 1]))
    THEN LET j == WordRunEnd(s, i)
         IN  IF /\ j - i + 1 >= LongTokenLen
                /\ \E m \in i..Len(s) : IsLetter(s[m])
                /\ \E m \in i..Len(s) : IsDigit(s[m])
             THEN <<"<", "i", "d", ">">> \o RE_LONG_ALNUM_sub(s, j + 1)
             ELSE SubSeq(s, i, j) \o RE_LONG_ALNUM_sub(s, j + 1)
    ELSE <<s[i]>> \o RE_LONG_ALNUM_sub(s, i + 1)

\* Lines 187-188: if lowercase: s = s.lower()
lower_step(self, s) == IF self.lowercase THEN Lower(s) ELSE s

\* Lines 190-220: the masks, in the order of the code. Of them RE_LONG_ALNUM
\* (its length scaled to LongTokenLen) and RE_NUM can match a text over the
\* characters modelled; every other pattern needs a character that is not
\* modelled or at least 16 characters.
mask_step(self, s) ==
    IF self.normalize_enabled
    THEN RE_NUM_sub(RE_LONG_ALNUM_sub(s, 1), 1)
    ELSE s

\* Lines 222-223: if collapse_whitespace: squeeze and strip.
collapse_step(self, s) ==
    IF self.collapse_whitespace THEN Strip(SqueezeSpaces(s, 1)) ELSE s

\* LSHMinHashEmbedder._preprocess
preprocess(self, text) ==
    collapse_step(self, mask_step(self, lower_step(self, text)))

CharCode(c) ==
    CASE c = "a" -> 1 [] c = "A" -> 2 [] c = " " -> 3 [] c = "1" -> 4
      [] c = "<" -> 5 [] c = "i" -> 6 [] c = "d" -> 7 [] c = ">" -> 8
      [] c = "_" -> 9

\* LSHMinHashEmbedder._stable_u32: a fixed hash of the gram, HashBits wide.
RECURSIVE stable_u32(_)
stable_u32(gram) ==
    IF gram = <<>> THEN 7
    ELSE (stable_u32(Tail(gram)) * 5 + CharCode(Head(gram))) % Pow2(HashBits)

\* As if the window stopped one gram short: range(0, len(s) - n).
shingle_one_short(self, s) ==
    LET n == self.shingle_size
    IN  IF Len(s) < n THEN {}
        ELSE { stable_u32(SubSeq(s, i, i + n - 1)) : i \in 1..(Len(s) - n) }

\* LSHMinHashEmbedder._shingle
shingle(self, s) ==
    LET n == self.shingle_size
    IN  IF Len(s) < n THEN {}
        ELSE { stable_u32(SubSeq(s, i, i + n - 1)) : i \in 1..(Len(s) - n + 1) }

\* LSHMinHashEmbedder._make_hash_params: (a_i, b_i) are fixed by (seed, i);
\* a_i is made odd, both are twice as wide as a shingle hash.
make_hash_params(k, seed) ==
    LET digest(i) == (seed * 73 + i * 29 + 11) * 7
        wide == Pow2(2 * HashBits)
    IN  [a |-> [i \in 1..k |-> 2 * ((digest(i - 1) % wide) \div 2) + 1],
         b |-> [i \in 1..k |-> (digest(i - 1) * 13 + seed) % wide]]

\* Lines 261-265: the signature after the shingles of todo are folded in.
RECURSIVE minhash_fold(_, _, _)
minhash_fold(self, sig, todo) ==
    IF todo = {} THEN sig
    ELSE LET x == CHOOSE y \in todo : TRUE
             next == [i \in 1..self.num_hashes |->
                        LET hx == (self.a[i] * x + self.b[i]) % prime
                        IN  IF hx < sig[i] THEN hx ELSE sig[i]]
         IN  minhash_fold(self, next, todo \ {x})

\* LSHMinHashEmbedder._minhash_signature
minhash_signature(self, shingles) ==
    IF shingles = {} THEN [i \in 1..self.num_hashes |-> max_hash]
    ELSE LET sig == minhash_fold(self, [i \in 1..self.num_hashes |-> max_hash],
                                 shingles)
         IN  [i \in 1..self.num_hashes |-> sig[i] % Pow2(HashBits)]

\* As if the chunk of band b started one slot early: sig[b*r - 1 : (b+1)*r].
signature_to_band_keys_overlapping(self, sig) ==
    LET r == self.rows_per_band
    IN  [b \in 1..self.bands |->
            <<"lsh", b - 1,
              <<"blake2b",
                SubSeq(sig, IF b = 1 THEN 1 ELSE (b - 1) * r, b * r)>> >>]

\* LSHMinHashEmbedder._signature_to_band_keys: "lsh:{b}:{digest of the chunk}",
\* the digest taken as collision free and named by the chunk it digests.
signature_to_band_keys(self, sig) ==
    LET r == self.rows_per_band
    IN  [b \in 1..self.bands |->
            <<"lsh", b - 1,
              <<"blake2b", [j \in 1..r |-> sig[(b - 1) * r + j]]>> >>]

\* LSHMinHashEmbedder.embed; the record also keeps the shingle set that
\* shingle_count counts.
embed(self, text) ==
    LET norm == preprocess(self, text)
    IN  IF self.stop_short_lines # 0 /\ Len(norm) < self.stop_short_lines
        THEN LET sig == [i \in 1..self.num_hashes |-> max_hash]
             IN  [signature |-> sig,
                  band_keys |-> signature_to_band_keys(self, sig),
                  shingle_count |-> 0,
                  shingles |-> {}]
        ELSE LET shingles == shingle(self, norm)
                 sig == minhash_signature(self, shingles)
             IN  [signature |-> sig,
                  band_keys |-> signature_to_band_keys(self, sig),
                  shingle_count |-> Cardinality(shingles),
                  shingles |-> shingles]

\* The arguments of a constructor call.
CtorArgs ==
    [shingle_size : (0 - 1)..MaxShingle,
     num_hashes : (0 - 1)..MaxHashes,
     bands : (0 - 1)..MaxHashes,
     seed : 0..MaxSeed,
     normalize : BOOLEAN,
     lowercase : BOOLEAN,
     collapse_whitespace : BOOLEAN,
     stop_short_lines : {0, MaxLen}]

\* The fields of a fingerprinter, lines 66-83.
Fingerprinter(args) ==
    [shingle_size |-> args.shingle_size,
     num_hashes |-> args.num_hashes,
     bands |-> args.bands,
     rows_per_band |-> args.num_hashes \div args.bands,
     seed |-> args.seed,
     normalize_enabled |-> args.normalize,
     lowercase |-> args.lowercase,
     collapse_whitespace |-> args.collapse_whitespace,
     stop_short_lines |-> args.stop_short_lines,
     a |-> make_hash_params(args.num_hashes, args.seed).a,
     b |-> make_hash_params(args.num_hashes, args.seed).b]

\* As if line 63 only checked bands > 0.
init_raises_unless_bands_positive(args) ==
    IF args.shingle_size <= 0 THEN "ValueError"
    ELSE IF args.num_hashes <= 0 THEN "ValueError"
    ELSE IF args.bands <= 0 THEN "ValueError"
    ELSE "none"

\* LSHMinHashEmbedder.__init__, lines 59-64: the error it raises, if any.
init_raises(args) ==
    IF args.shingle_size <= 0 THEN "ValueError"
    ELSE IF args.num_hashes <= 0 THEN "ValueError"
    ELSE IF args.bands <= 0 \/ args.num_hashes % args.bands # 0 THEN "ValueError"
    ELSE "none"

\* ------------------------------------------------------------------- state

VARIABLES
    collection_exists,    \* the collection exists in the vector store
    points,               \* the points of the collection
    lookup,               \* the rows of the lookup table
    pc,                   \* where the caller is: idle, loop, inserts, returned
    log_entries,          \* insert_logs: its argument (annotated in place)
    search_results,       \* insert_logs: the responses of search_batch
    idx,                  \* insert_logs / inserts: the entry being handled
    vector_store_inserts, \* insert_logs: the entries queued for insertion
    outcome,              \* how the last call ended: ok or the error raised
    writes,               \* the rows handed to insert_into_lookup_db in this call
    upserted,             \* the ids handed to client.upsert in this call
    calls,                \* the calls made on the two stores in this call,
                          \* in order, each with whether it raised
    points_before,        \* the points when this call started
    ingested,             \* the ids of the entries of the calls that returned
                          \* normally since the stores were last cleared
    clock,                \* what get_time() returns next
    fp_state,             \* the fingerprinter: absent, ready, or raised
    fp_error,             \* what its constructor raised: none or the error
    fp_args,              \* the arguments its constructor was called with
    fp,                   \* its fields, once constructed
    emb_text,             \* embed: the text of the last call
    emb_out,              \* embed: what the last call returned
    shg,                  \* shingles: the last call and what it returned
    callers,              \* the callers sharing the fingerprinter: where each
                          \* is in its call, and its local variables
    nz,                   \* _preprocess: the call in progress, its locals
    cmp,                  \* jaccard / compare: the call, what it returned
    flt,                  \* the filter compiler: the call, what it returned
    rl                    \* sync_similarty: the call, its locals, what the
                          \* call before it scanned and returned

ingest_vars == <<collection_exists, points, lookup, pc, log_entries,
                 search_results, idx, vector_store_inserts, outcome, writes,
                 upserted, calls, points_before, ingested, clock>>

\* The variables of the calls of the functions that keep no state.
fn_vars == <<nz, cmp, flt, rl>>

fp_vars == <<fp_state, fp_error, fp_args, fp, emb_text, emb_out, shg,
             callers, fn_vars>>

vars == <<ingest_vars, fp_vars>>

locals == <<log_entries, search_results, idx, vector_store_inserts>>
stores == <<collection_exists, points, lookup>>

\* The arguments the handler is given for its fingerprinter, lines 37-50.
HandlerArgs ==
    [shingle_size |-> MaxShingle, num_hashes |-> MaxHashes, bands |-> 1,
     seed |-> 0, normalize |-> TRUE, lowercase |-> TRUE,
     collapse_whitespace |-> TRUE, stop_short_lines |-> 0]

\* No embed call has been made.
NoEmbedding == [signature |-> <<>>, band_keys |-> <<>>, shingle_count |-> 0,
                shingles |-> {}]

\* No shingles call has been made.
NoShingles == [called |-> FALSE, text |-> <<>>, norm |-> <<>>, out |-> {}]

Callers == 1..NumCallers

\* A caller that is not in a call.
IdleCaller ==
    [pc |-> "idle", op |-> "none", text |-> <<>>, norm |-> <<>>,
     shingles |-> {}, sig |-> <<>>, result |-> NoEmbedding]

\* The stores and the caller before the first call.
InitIngest ==
    /\ collection_exists = TRUE
    /\ points = {}
    /\ lookup = {}
    /\ pc = "idle"
    /\ log_entries = <<>>
    /\ search_results = <<>>
    /\ idx = 1
    /\ vector_store_inserts = <<>>
    /\ outcome = "none"
    /\ writes = <<>>
    /\ upserted = <<>>
    /\ calls = <<>>
    /\ points_before = {}
    /\ ingested = {}
    /\ clock = 1

\* The flags of _preprocess, lines 118-120.
Flags == [lowercase : BOOLEAN, normalize_enabled : BOOLEAN,
          collapse_whitespace : BOOLEAN]

\* No call of _preprocess is in progress.
NoNormalize == [pc |-> "idle", self |-> CHOOSE f \in Flags : TRUE,
                text |-> <<>>, s |-> <<>>, steps |-> <<>>, pass |-> 0,
                out |-> <<>>]

\* A float that is the quotient of two integers, kept as the two integers.
Ratio(n, d) == [num |-> n, den |-> d]

\* No call of jaccard or compare is in progress.
NoCompare == [pc |-> "idle", fn |-> "none", a |-> <<>>, b |-> <<>>,
              error |-> "none", result |-> Ratio(0, 1)]

\* Filter(must=None, should=None, min_should=None, must_not=None)
NoFilter == [must |-> <<>>, should |-> <<>>,
             min_should |-> [conditions |-> <<>>, min_count |-> 0],
             must_not |-> <<>>]

\* No call of the filter compiler is in progress.
NoCompile == [pc |-> "idle", fn |-> "none", expr |-> [key |-> ""],
              specs |-> <<>>, mode |-> "and",
              payload |-> [status |-> ""], validates |-> FALSE,
              error |-> "none", shown |-> [tag |-> "none"],
              filter |-> NoFilter, cond |-> [kind |-> "none"],
              shape |-> "none", filters |-> <<>>]

\* No call of sync_similarty has been made.
NoRelink == [pc |-> "idle", runs |-> 0, unsync_points |-> <<>>,
             search_results |-> <<>>, i |-> 1, edges_to_update |-> <<>>,
             outcome |-> "none", calls |-> <<>>,
             first |-> [outcome |-> "none", unsync_points |-> <<>>,
                        search_results |-> <<>>, edges_to_update |-> <<>>,
                        points |-> {}]]

\* No function is being called.
InitFn ==
    nz = NoNormalize /\ cmp = NoCompare /\ flt = NoCompile /\ rl = NoRelink

\* The handler is constructed: its stores are empty, its fingerprinter ready.
Init ==
    /\ InitIngest
    /\ fp_state = "ready"
    /\ fp_error = "none"
    /\ fp_args = HandlerArgs
    /\ fp = Fingerprinter(HandlerArgs)
    /\ emb_text = <<>>
    /\ emb_out = NoEmbedding
    /\ shg = NoShingles
    /\ callers = [c \in Callers |-> IdleCaller]
    /\ InitFn

\* A call on the vector store or on the lookup store: which method, for
\* which item of the batch (0 for the batched query), and whether it raised.
Call(to, item, raised) == [to |-> to, item |-> item, raised |-> raised]

\* get_time(): the clock is read and moves on.
Tick == clock' = IF clock < MaxTime THEN clock + 1 ELSE clock

\* The call ends: with "ok" or with the error it raises.
Finish(how) ==
    /\ pc' = "returned"
    /\ outcome' = how

\* --------------------------------------------------------------- insert_logs

\* Lines 65-72: the batched nearest-neighbour query, which answers, raises,
\* or comes back None or empty.
InsertLogs_Search ==
    /\ pc = "idle"
    /\ \E batch \in Batches :
        LET texts == [i \in 1..Len(batch) |-> batch[i].text]
        IN  /\ log_entries' = batch
            /\ idx' = 1
            /\ vector_store_inserts' = <<>>
            /\ writes' = <<>>
            /\ upserted' = <<>>
            /\ points_before' = points
            /\ UNCHANGED <<fp_vars, stores, ingested, clock>>
            /\ \/ /\ search_results' = <<>>
                  /\ calls' = <<Call("search_batch", 0, TRUE)>>
                  /\ Finish("search_batch raised")
               \/ /\ collection_exists
                  /\ \E res \in SearchBatch(texts, 1, points) :
                        search_results' = res
                  /\ calls' = <<Call("search_batch", 0, FALSE)>>
                  /\ IF Len(batch) = 0 THEN Finish("ok")
                     ELSE pc' = "loop" /\ outcome' = "none"
               \/ /\ collection_exists
                  /\ Len(batch) > 0
                  /\ search_results' = [i \in 1..Len(batch) |-> NoneResponse]
                  /\ calls' = <<Call("search_batch", 0, FALSE)>>
                  /\ pc' = "loop"
                  /\ outcome' = "none"

\* Lines 76-77: the entry as the loop annotates it.
Annotate(entry, now) ==
    [text |-> entry.text,
     metadata |-> DictSet(entry.metadata, "sim_sync", "False"),
     insert_timestamp |-> now]

\* Line 78.
HashOfEntry(entry) ==
    VS_hash(Insertable(entry.text, entry.metadata, NoTimestamp))

\* As if line 89 compared with > instead of >=.
IsDuplicateStrict(result) ==
    /\ result.points # <<>>
    /\ result.points[1].score > insert_sim_threshold

\* Line 89 with lines 79-81: the top match makes the entry a duplicate.
IsDuplicate(result) ==
    /\ result.points # <<>>
    /\ result.points[1].score >= insert_sim_threshold

\* As if the row named the top match whenever there is one, duplicate or not.
RowForTopMatch(entry, result) ==
    LET hashval == HashOfEntry(entry)
        timestamp == DictGet(entry.metadata, "timestamp", "")
        location == DictGet(entry.metadata, "pod_name", "")
    IN  IF result.points # <<>>
        THEN LookupRecord(hashval, result.points[1].id, result.points[1].score,
                          timestamp, location)
        ELSE LookupRecord(hashval, hashval, 100, timestamp, location)

\* Lines 92-98, 102-108, 113-119: the row handed to insert_into_lookup_db.
RowFor(entry, result) ==
    LET hashval == HashOfEntry(entry)
        timestamp == DictGet(entry.metadata, "timestamp", "")
        location == DictGet(entry.metadata, "pod_name", "")
    IN  IF IsDuplicate(result)
        THEN LookupRecord(hashval, result.points[1].id, result.points[1].score,
                          timestamp, location)
        ELSE LookupRecord(hashval, hashval, 100, timestamp, location)

\* VectorStore.inserts, lines 113-127: the point handed to client.upsert.
PointOf(obj) ==
    LET insertable == Insertable(obj.text, obj.metadata, obj.insert_timestamp)
    IN  [id |-> VS_hash(insertable),
         vector |-> Embed(insertable.text),
         payload |-> DictSet(insertable.metadata, "insert_timestamp",
                             insertable.insert_timestamp)]

\* As if the loop inserted each canonical entry at once instead of queueing it.
InsertLogs_LoopEager ==
    /\ pc = "loop"
    /\ Tick
    /\  LET entry == Annotate(log_entries[idx], clock)
            result == search_results[idx]
            row == RowFor(entry, result)
            queue == IF IsDuplicate(result) THEN vector_store_inserts
                     ELSE Append(vector_store_inserts, entry)
        IN  /\ log_entries' = [log_entries EXCEPT ![idx] = entry]
            /\ UNCHANGED <<fp_vars, collection_exists, search_results,
                           points_before, ingested>>
            /\ IF result.isNone
               THEN /\ Finish("AttributeError")
                    /\ UNCHANGED <<lookup, idx, vector_store_inserts, writes,
                                   points, upserted, calls>>
               ELSE /\ writes' = Append(writes, row)
                    /\ \/ /\ Finish("insert_into_lookup_db raised")
                          /\ calls' = Append(calls,
                                  Call("insert_into_lookup_db", idx, TRUE))
                          /\ UNCHANGED <<lookup, idx, vector_store_inserts,
                                         points, upserted>>
                       \/ /\ lookup' = insert_into_lookup_db(lookup, row)
                          /\ vector_store_inserts' = <<>>
                          /\ IF IsDuplicate(result)
                             THEN /\ UNCHANGED <<points, upserted>>
                                  /\ calls' = Append(calls,
                                          Call("insert_into_lookup_db", idx, FALSE))
                             ELSE /\ points' = Upsert(points, PointOf(entry))
                                  /\ upserted' = Append(upserted, PointOf(entry).id)
                                  /\ calls' = calls \o
                                          <<Call("insert_into_lookup_db", idx, FALSE),
                                            Call("upsert", idx, FALSE)>>
                          /\ IF idx < Len(log_entries)
                             THEN /\ idx' = idx + 1
                                  /\ UNCHANGED <<pc, outcome>>
                             ELSE /\ idx' = 1
                                  /\ Finish("ok")

\* Lines 75-120: one turn of the loop over zip(log_entries, search_results).
InsertLogs_Loop ==
    /\ pc = "loop"
    /\ Tick
    /\  LET entry == Annotate(log_entries[idx], clock)
            result == search_results[idx]
            row == RowFor(entry, result)
            queue == IF IsDuplicate(result) THEN vector_store_inserts
                     ELSE Append(vector_store_inserts, entry)
        IN  /\ log_entries' = [log_entries EXCEPT ![idx] = entry]
            /\ UNCHANGED <<fp_vars, collection_exists, points, search_results,
                           upserted, points_before, ingested>>
            /\ IF result.isNone
               THEN /\ Finish("AttributeError")
                    /\ UNCHANGED <<lookup, idx, vector_store_inserts, writes,
                                   calls>>
               ELSE /\ writes' = Append(writes, row)
                    /\ \/ /\ Finish("insert_into_lookup_db raised")
                          /\ calls' = Append(calls,
                                  Call("insert_into_lookup_db", idx, TRUE))
                          /\ UNCHANGED <<lookup, idx, vector_store_inserts>>
                       \/ /\ lookup' = insert_into_lookup_db(lookup, row)
                          /\ calls' = Append(calls,
                                  Call("insert_into_lookup_db", idx, FALSE))
                          /\ vector_store_inserts' = queue
                          /\ IF idx < Len(log_entries)
                             THEN /\ idx' = idx + 1
                                  /\ UNCHANGED <<pc, outcome>>
                             ELSE /\ idx' = 1
                                  /\ IF queue = <<>>
                                     THEN Finish("ok")
                                     ELSE pc' = "inserts" /\ outcome' = "none"

\* As if VectorStore.inserts tried a failed upsert a second time.
InsertLogs_InsertsRetrying ==
    /\ pc = "inserts"
    /\ UNCHANGED <<fp_vars, collection_exists, lookup, log_entries,
                   search_results, vector_store_inserts, writes, points_before,
                   ingested, clock>>
    /\ \/ /\ calls' = Append(calls, Call("upsert", idx, TRUE))
          /\ IF calls[Len(calls)] = Call("upsert", idx, TRUE)
             THEN Finish("upsert raised")
             ELSE UNCHANGED <<pc, outcome>>
          /\ UNCHANGED <<points, idx, upserted>>
       \/ /\ points' = Upsert(points, PointOf(vector_store_inserts[idx]))
          /\ upserted' = Append(upserted, PointOf(vector_store_inserts[idx]).id)
          /\ calls' = Append(calls, Call("upsert", idx, FALSE))
          /\ IF idx < Len(vector_store_inserts)
             THEN idx' = idx + 1 /\ UNCHANGED <<pc, outcome>>
             ELSE idx' = 1 /\ Finish("ok")

\* Lines 122-123 and VectorStore.inserts: one upsert per queued entry.
InsertLogs_Inserts ==
    /\ pc = "inserts"
    /\ UNCHANGED <<fp_vars, collection_exists, lookup, log_entries,
                   search_results, vector_store_inserts, writes, points_before,
                   ingested, clock>>
    /\ \/ /\ Finish("upsert raised")
          /\ calls' = Append(calls, Call("upsert", idx, TRUE))
          /\ UNCHANGED <<points, idx, upserted>>
       \/ /\ points' = Upsert(points, PointOf(vector_store_inserts[idx]))
          /\ upserted' = Append(upserted, PointOf(vector_store_inserts[idx]).id)
          /\ calls' = Append(calls, Call("upsert", idx, FALSE))
          /\ IF idx < Len(vector_store_inserts)
             THEN idx' = idx + 1 /\ UNCHANGED <<pc, outcome>>
             ELSE idx' = 1 /\ Finish("ok")

\* The caller takes the result; the call's locals are gone.
Return ==
    /\ pc = "returned"
    /\ pc' = "idle"
    /\ log_entries' = <<>>
    /\ search_results' = <<>>
    /\ idx' = 1
    /\ vector_store_inserts' = <<>>
    /\ outcome' = "none"
    /\ writes' = <<>>
    /\ upserted' = <<>>
    /\ calls' = <<>>
    /\ points_before' = {}
    /\ ingested' = IF outcome = "ok"
                   THEN ingested \cup {HashOfEntry(log_entries[k]) :
                                         k \in 1..Len(log_entries)}
                   ELSE ingested
    /\ UNCHANGED <<fp_vars, stores, clock>>

\* ------------------------------------------------------------- clear, reset

\* LogIngestionHtbridHandler.clear: the collection is deleted, then the
\* lookup table emptied (a statement that may raise).
Clear ==
    /\ pc = "idle"
    /\ collection_exists' = FALSE
    /\ points' = {}
    /\ \/ lookup' = {}
       \/ UNCHANGED lookup
    /\ ingested' = {}
    /\ UNCHANGED <<fp_vars, pc, locals, outcome, writes, upserted, calls,
                   points_before, clock>>

\* LogIngestionHtbridHandler.reset: clear, then the collection is created anew.
Reset ==
    /\ pc = "idle"
    /\ collection_exists' = TRUE
    /\ points' = {}
    /\ lookup' = {}
    /\ ingested' = {}
    /\ UNCHANGED <<fp_vars, pc, locals, outcome, writes, upserted, calls,
                   points_before, clock>>

Next ==
    \/ InsertLogs_Search
    \/ InsertLogs_Loop
    \/ InsertLogs_Inserts
    \/ Return
    \/ Clear
    \/ Reset

Spec == Init /\ [][Next]_vars

\* ------------------------------------------------------------- fingerprinter

\* No fingerprinter has been constructed; the stores are as in Init.
InitFingerprint ==
    /\ InitIngest
    /\ fp_state = "absent"
    /\ fp_error = "none"
    /\ fp_args = HandlerArgs
    /\ fp = Fingerprinter(HandlerArgs)
    /\ emb_text = <<>>
    /\ emb_out = NoEmbedding
    /\ shg = NoShingles
    /\ callers = [c \in Callers |-> IdleCaller]
    /\ InitFn

\* LSHMinHashEmbedder(...): raises on invalid arguments, else sets the fields.
Construct ==
    /\ fp_state = "absent"
    /\ \E args \in CtorArgs :
        /\ fp_args' = args
        /\ fp_error' = init_raises(args)
        /\ IF init_raises(args) = "none"
           THEN fp_state' = "ready" /\ fp' = Fingerprinter(args)
           ELSE fp_state' = "raised" /\ UNCHANGED fp
    /\ UNCHANGED <<ingest_vars, fn_vars, emb_text, emb_out, shg, callers>>

\* No call has been made on the fingerprinter. A call leaves the
\* fingerprinter as it was, so its first call stands for each of them.
FirstCall == emb_out = NoEmbedding /\ ~shg.called

\* embed(text) on the constructed fingerprinter.
EmbedText ==
    /\ fp_state = "ready"
    /\ FirstCall
    /\ \E text \in Texts :
        /\ emb_text' = text
        /\ emb_out' = embed(fp, text)
    /\ UNCHANGED <<ingest_vars, fn_vars, fp_state, fp_error, fp_args, fp, shg, callers>>

\* shingles(text) on the constructed fingerprinter, lines 100-102.
Shingles ==
    /\ fp_state = "ready"
    /\ FirstCall
    /\ \E text \in Texts :
        shg' = [called |-> TRUE, text |-> text, norm |-> preprocess(fp, text),
                out |-> shingle(fp, preprocess(fp, text))]
    /\ UNCHANGED <<ingest_vars, fn_vars, fp_state, fp_error, fp_args, fp, emb_text,
                   emb_out, callers>>

NextFingerprint == Construct \/ EmbedText \/ Shingles

SpecFingerprint == InitFingerprint /\ [][NextFingerprint]_vars

\* ------------------------------------------------------------------ claims

InCall == pc \in {"loop", "inserts", "returned"}

PointIds == {p.id : p \in points}

\* The canonical id insert_logs computes for an entry, annotated or not yet.
CanonicalId(entry) == HashOfEntry(Annotate(entry, NoTimestamp))

\* The k-th write of the call went through (only the last one can have raised).
WriteDone(k) == k < Len(writes) \/ outcome # "insert_into_lookup_db raised"

Queued(entry) ==
    \E j \in 1..Len(vector_store_inserts) : vector_store_inserts[j] = entry

WasUpserted(id) == \E j \in 1..Len(upserted) : upserted[j] = id

\* C1: for every entry of the batch, a top match with score s >= the
\* threshold (s equal to it included) makes insert_logs write
\* LookupRecord(id, matched id, s) and keep the entry out of the vector
\* store; no match, or s below the threshold, makes it write the
\* self-referencing LookupRecord(id, id, 1.0), queue the entry and, when the
\* call returns normally, have it in the vector store.
C1_DedupDecision ==
    \A k \in 1..Len(writes) :
        LET e == log_entries[k]
            r == search_results[k]
            w == writes[k]
            id == CanonicalId(e)
            matched == /\ r.points # <<>>
                       /\ r.points[1].score >= insert_sim_threshold
        IN  /\ w.id = id
            /\ matched =>
                  /\ w.closest_log_id = r.points[1].id
                  /\ w.similarity = r.points[1].score
                  /\ ~Queued(e)
                  /\ ~WasUpserted(id)
            /\ ~matched =>
                  /\ w.closest_log_id = id
                  /\ w.similarity = 100
                  /\ WriteDone(k) => Queued(e)
                  /\ (pc = "returned" /\ outcome = "ok")
                        => WasUpserted(id) /\ id \in PointIds

\* A call that returned normally after one entry matched at exactly the
\* threshold (duplicate) and another matched below it (inserted).
C1_Witness ==
    /\ pc = "returned"
    /\ outcome = "ok"
    /\ \E k \in 1..Len(writes) :
          /\ search_results[k].points # <<>>
          /\ search_results[k].points[1].score = insert_sim_threshold
          /\ writes[k].closest_log_id # writes[k].id
          /\ ~WasUpserted(writes[k].id)
    /\ \E k \in 1..Len(writes) :
          /\ search_results[k].points # <<>>
          /\ search_results[k].points[1].score < insert_sim_threshold
          /\ WasUpserted(writes[k].id)

\* C2: the whole batch is classified against the vector store as it was
\* when the call started: while decisions are still being made no point has
\* been upserted, every response is an answer over the points of the start,
\* and so a batch submitted on an empty store has every entry written as
\* self-referencing and inserted, near-duplicates of each other included.
C2_BatchSeesStartState ==
    /\ pc = "loop" => upserted = <<>> /\ points = points_before
    /\ InCall =>
          \A k \in 1..Len(search_results) :
              ~search_results[k].isNone =>
                  search_results[k].points
                      \in Ranked(Embed(log_entries[k].text), 1, points_before)
    /\ (pc = "returned" /\ outcome = "ok" /\ points_before = {}) =>
          \A k \in 1..Len(log_entries) :
              /\ writes[k].closest_log_id = writes[k].id
              /\ writes[k].similarity = 100
              /\ CanonicalId(log_entries[k]) \in PointIds

\* E1 and its near-duplicate E2, submitted together on an empty store, are
\* both in the vector store when the call returns.
C2_Witness ==
    /\ pc = "returned"
    /\ outcome = "ok"
    /\ points_before = {}
    /\ Len(log_entries) >= 2
    /\ log_entries[1].text = "E1"
    /\ log_entries[2].text = "E2"
    /\ Score(Embed("E1"), Embed("E2")) >= insert_sim_threshold
    /\ {CanonicalId(log_entries[1]), CanonicalId(log_entries[2])} \subseteq PointIds

\* C3: when the batched query comes back None or empty for a non-empty
\* batch, insert_logs does not fail on it: it treats every entry as having no
\* match, writes its self-referencing LookupRecord and inserts it.
C3_AbsentResultIsNoMatch ==
    ( /\ pc = "returned"
      /\ Len(search_results) > 0
      /\ \A k \in 1..Len(search_results) : search_results[k].isNone )
    => /\ outcome # "AttributeError"
       /\ outcome = "ok" =>
             \A k \in 1..Len(log_entries) :
                 /\ k <= Len(writes)
                 /\ writes[k].closest_log_id = writes[k].id
                 /\ CanonicalId(log_entries[k]) \in PointIds

\* C4: a LookupRecord is never updated: in every step other than clear and
\* reset each row stays as it is and stays the only row of its id.
C4_LookupRecordNeverUpdated ==
    [][ (pc # "idle" \/ pc' # "idle") =>
           \A r \in lookup :
               /\ r \in lookup'
               /\ \A q \in lookup' : q.id = r.id => q = r ]_vars

\* A write that went through and was ignored: the table holds another row
\* for its id.
C4_Witness ==
    /\ InCall
    /\ \E k \in 1..Len(writes) :
          /\ WriteDone(k)
          /\ writes[k] \notin lookup
          /\ \E r \in lookup :
                /\ r.id = writes[k].id
                /\ r.closest_log_id # writes[k].closest_log_id

\* C5: when insert_logs returns normally, every entry of the batch has a
\* LookupRecord under its canonical id.
C5_RecordForEveryEntry ==
    (pc = "returned" /\ outcome = "ok") =>
        \A k \in 1..Len(log_entries) :
            \E r \in lookup : r.id = CanonicalId(log_entries[k])

\* A normal return of a batch of a duplicate and a canonical entry.
C5_Witness ==
    /\ pc = "returned"
    /\ outcome = "ok"
    /\ Len(log_entries) >= 2
    /\ \E k \in 1..Len(writes) : writes[k].closest_log_id # writes[k].id
    /\ \E k \in 1..Len(writes) : writes[k].closest_log_id = writes[k].id

\* C6: ingesting again an entry that a call which returned normally has
\* ingested (and no clear since) changes no LookupRecord, queues nothing and
\* adds no point id to the vector store.
C6_ReingestionIdempotent ==
    [][ /\ (pc = "loop" /\ CanonicalId(log_entries[idx]) \in ingested) =>
              /\ lookup' = lookup
              /\ vector_store_inserts' = vector_store_inserts
              /\ PointIds' = PointIds
        /\ (pc = "inserts" /\ PointOf(vector_store_inserts[idx]).id \in ingested) =>
              PointIds' = PointIds ]_vars

\* A batch of entries all ingested before has returned normally, one of its
\* writes differing from the row the table keeps.
C6_Witness ==
    /\ pc = "returned"
    /\ outcome = "ok"
    /\ Len(log_entries) > 0
    /\ \A k \in 1..Len(log_entries) : CanonicalId(log_entries[k]) \in ingested
    /\ \E k \in 1..Len(writes) : writes[k] \notin lookup

\* C7: the canonical id depends on (text, metadata) and not on
\* insert_timestamp, and the id of the point upserted for an entry is the id
\* of the LookupRecord written for it: every point has a LookupRecord of its
\* own id.
C7_OneIdForPointAndRecord ==
    /\ \A k \in 1..Len(writes) :
          writes[k].id = VS_hash(Insertable(log_entries[k].text,
                                            log_entries[k].metadata,
                                            log_entries[k].insert_timestamp))
    /\ \A j \in 1..Len(upserted) :
          \E k \in 1..Len(writes) :
              /\ writes[k].id = upserted[j]
              /\ writes[k].closest_log_id = upserted[j]
    /\ \A p \in points : \E r \in lookup : r.id = p.id

\* Two entries of equal text and metadata, stamped at different times, were
\* upserted under one id.
C7_Witness ==
    /\ pc = "returned"
    /\ outcome = "ok"
    /\ Len(log_entries) = 2
    /\ log_entries[1].text = log_entries[2].text
    /\ log_entries[1].metadata = log_entries[2].metadata
    /\ log_entries[1].insert_timestamp # log_entries[2].insert_timestamp
    /\ Len(upserted) = 2
    /\ upserted[1] = upserted[2]
    /\ upserted[1] \in PointIds

\* ------------------------------------------------------ fingerprinter claims

\* An embed call has returned.
Embedded == fp_state = "ready" /\ emb_out # NoEmbedding

\* The arguments the constructor must refuse.
InvalidArgs(args) ==
    \/ args.shingle_size <= 0
    \/ args.num_hashes <= 0
    \/ args.bands <= 0
    \/ args.num_hashes % args.bands # 0

\* h_i(x) = (a_i * x + b_i) mod prime
PermHash(self, i, x) == (self.a[i] * x + self.b[i]) % prime

SetMin(S) == CHOOSE m \in S : \A n \in S : m <= n

AllSentinel(sig) == \A i \in 1..Len(sig) : sig[i] = max_hash

\* C8: a constructor call with shingle_size <= 0, num_hashes <= 0, bands <= 0
\* or bands not dividing num_hashes fails with ConfigurationError.
C8_FailsWithConfigurationError ==
    (fp_state # "absent" /\ InvalidArgs(fp_args))
        => (fp_state = "raised" /\ fp_error = "ConfigurationError")

\* C8, as the code has it: a constructor call with shingle_size <= 0,
\* num_hashes <= 0, bands <= 0 or bands not dividing num_hashes fails with
\* ValueError and constructs nothing.
C8_FailsWithValueError ==
    (fp_state # "absent" /\ InvalidArgs(fp_args))
        => (fp_state = "raised" /\ fp_error = "ValueError")

\* A call with positive arguments whose bands do not divide num_hashes has
\* been refused.
C8_Witness ==
    /\ fp_state = "raised"
    /\ fp_args.shingle_size > 0
    /\ fp_args.num_hashes > 1
    /\ fp_args.bands > 1
    /\ fp_args.num_hashes % fp_args.bands # 0

\* C9: the signature of every text has exactly num_hashes slots, and all of
\* them hold the sentinel max_hash if and only if the text has no shingles.
C9_AllSentinelIffNoShingles ==
    Embedded =>
        /\ Len(emb_out.signature) = fp.num_hashes
        /\ AllSentinel(emb_out.signature) <=> (emb_out.shingles = {})

\* C10: with a non-empty shingle set S, slot i of the signature is the least
\* of (a_i * x + b_i) mod prime over the x of S; with an empty S every slot is
\* the sentinel max_hash.
C10_SlotIsMinimumOverShingles ==
    Embedded =>
        \A i \in 1..fp.num_hashes :
            emb_out.signature[i] =
                IF emb_out.shingles = {} THEN max_hash
                ELSE SetMin({ PermHash(fp, i, x) : x \in emb_out.shingles })

\* C11: the shingle set of a text of length n under shingle_size k has at
\* most n - k + 1 elements, is empty if and only if n < k, and holds unsigned
\* hashes of the fixed width only.
C11_ShingleSetSize ==
    shg.called =>
        /\ Cardinality(shg.out) <= Len(shg.norm) - fp.shingle_size + 1
        /\ (shg.out = {}) <=> (Len(shg.norm) < fp.shingle_size)
        /\ \A x \in shg.out : x \in 0..max_hash

\* C11, as the code has it: the bound on the size is n - k + 1 where that is
\* not negative and 0 otherwise; the rest as stated.
C11_ShingleSetSizeFloored ==
    shg.called =>
        LET windows == Len(shg.norm) - fp.shingle_size + 1
        IN  /\ Cardinality(shg.out) <= (IF windows > 0 THEN windows ELSE 0)
            /\ (shg.out = {}) <=> (Len(shg.norm) < fp.shingle_size)
            /\ \A x \in shg.out : x \in 0..max_hash

\* A text exactly as long as the shingle size, longer than one character,
\* gave its one shingle.
C11_Witness ==
    /\ shg.called
    /\ fp.shingle_size > 1
    /\ Len(shg.norm) = fp.shingle_size
    /\ Cardinality(shg.out) = 1

\* Slots first..last of a signature, as a set of indices.
SliceOf(b, r) == ((b - 1) * r + 1)..(b * r)

\* C12: embed returns exactly `bands` keys; key b is "lsh", b and the digest
\* of the r = num_hashes / bands slots of slice b and of nothing else; the
\* slices are contiguous, do not overlap and cover every slot once.
C12_BandKeysPartitionSignature ==
    Embedded =>
        LET r == fp.num_hashes \div fp.bands
            sig == emb_out.signature
            keys == emb_out.band_keys
        IN  /\ Len(keys) = fp.bands
            /\ \A b \in 1..fp.bands :
                  keys[b] = <<"lsh", b - 1,
                              <<"blake2b", [j \in 1..r |-> sig[(b - 1) * r + j]]>> >>
            /\ \A i \in 1..Len(sig) :
                  Cardinality({b \in 1..fp.bands : i \in SliceOf(b, r)}) = 1
            /\ \A b \in 1..fp.bands : SliceOf(b, r) \subseteq 1..Len(sig)

\* A signature cut into several bands of several slots each, two of its
\* slices equal and so their digests.
C12_Witness ==
    /\ Embedded
    /\ fp.bands > 1
    /\ fp.rows_per_band > 1
    /\ emb_out.shingles # {}
    /\ emb_out.band_keys[1][3] = emb_out.band_keys[2][3]
    /\ emb_out.band_keys[1] # emb_out.band_keys[2]

\* ------------------------------------------- callers sharing a fingerprinter

\* The texts the callers pass.
CallTexts ==
    { <<>>, <<"a", " ", "1">>, <<"A", "a">>, <<"1", "1", "a">>, <<"a">> }

\* The fingerprinters the callers share: the handler's, with and without a
\* minimum length.
SharedArgs ==
    { [HandlerArgs EXCEPT !.stop_short_lines = n, !.bands = b] :
        n \in {0, 2}, b \in {1, MaxHashes} }

\* One fingerprinter has been constructed; no caller is in a call.
InitShared ==
    /\ InitIngest
    /\ fp_state = "ready"
    /\ fp_error = "none"
    /\ fp_args \in SharedArgs
    /\ fp = Fingerprinter(fp_args)
    /\ emb_text = <<>>
    /\ emb_out = NoEmbedding
    /\ shg = NoShingles
    /\ callers = [c \in Callers |-> IdleCaller]
    /\ InitFn

\* What a step of caller c leaves alone: everything but its own locals.
OnlyCaller(c, local) ==
    /\ callers' = [callers EXCEPT ![c] = local]
    /\ UNCHANGED <<ingest_vars, fn_vars, fp_state, fp_error, fp_args, fp, emb_text,
                   emb_out, shg>>

\* Caller c enters embed(text) or shingles(text).
Caller_Call(c) ==
    /\ callers[c].pc = "idle"
    /\ \E op \in {"embed", "shingles"}, text \in CallTexts :
        OnlyCaller(c, [IdleCaller EXCEPT !.pc = "preprocess", !.op = op,
                                         !.text = text])

\* norm = self._preprocess(text), and in embed the test of line 90.
Caller_Preprocess(c) ==
    /\ callers[c].pc = "preprocess"
    /\ LET me == callers[c]
           norm == preprocess(fp, me.text)
       IN  IF /\ me.op = "embed"
              /\ fp.stop_short_lines # 0
              /\ Len(norm) < fp.stop_short_lines
           THEN OnlyCaller(c, [me EXCEPT
                    !.norm = norm,
                    !.sig = [i \in 1..fp.num_hashes |-> max_hash],
                    !.pc = "band_keys"])
           ELSE OnlyCaller(c, [me EXCEPT !.norm = norm, !.pc = "shingle"])

\* self._shingle(norm); shingles returns it.
Caller_Shingle(c) ==
    /\ callers[c].pc = "shingle"
    /\ LET me == callers[c]
       IN  OnlyCaller(c, [me EXCEPT
               !.shingles = shingle(fp, me.norm),
               !.pc = IF me.op = "embed" THEN "signature" ELSE "returned"])

\* As if computing a signature drew the next hash family into the fields.
Caller_Signature_reseeding(c) ==
    /\ callers[c].pc = "signature"
    /\ LET me == callers[c]
       IN  /\ callers' = [callers EXCEPT ![c] = [me EXCEPT
                  !.sig = minhash_signature(fp, me.shingles),
                  !.pc = "band_keys"]]
           /\ fp' = [fp EXCEPT
                  !.a = make_hash_params(fp.num_hashes, fp.seed + 1).a,
                  !.b = make_hash_params(fp.num_hashes, fp.seed + 1).b]
    /\ UNCHANGED <<ingest_vars, fn_vars, fp_state, fp_error, fp_args, emb_text,
                   emb_out, shg>>

\* sig = self._minhash_signature(shingles)
Caller_Signature(c) ==
    /\ callers[c].pc = "signature"
    /\ LET me == callers[c]
       IN  OnlyCaller(c, [me EXCEPT
               !.sig = minhash_signature(fp, me.shingles),
               !.pc = "band_keys"])

\* bands = self._signature_to_band_keys(sig), and the LSHEmbedding returned.
Caller_BandKeys(c) ==
    /\ callers[c].pc = "band_keys"
    /\ LET me == callers[c]
       IN  OnlyCaller(c, [me EXCEPT
               !.result = [signature |-> me.sig,
                           band_keys |-> signature_to_band_keys(fp, me.sig),
                           shingle_count |-> Cardinality(me.shingles),
                           shingles |-> me.shingles],
               !.pc = "returned"])

\* The caller has its value and is free to call again.
Caller_Return(c) ==
    /\ callers[c].pc = "returned"
    /\ OnlyCaller(c, IdleCaller)

NextShared ==
    \E c \in Callers :
        \/ Caller_Call(c)
        \/ Caller_Preprocess(c)
        \/ Caller_Shingle(c)
        \/ Caller_Signature(c)
        \/ Caller_BandKeys(c)
        \/ Caller_Return(c)

SpecShared == InitShared /\ [][NextShared]_vars

\* C13: the fields of a shared fingerprinter, its hash family (a_i, b_i)
\* included, stay what the constructor made them whatever calls are under
\* way, and every call, however interleaved with the others, returns what one
\* isolated call with its text returns.
C13_SharedCallsAsIsolated ==
    /\ fp = Fingerprinter(fp_args)
    /\ \A c \in Callers :
          callers[c].pc = "returned" =>
              IF callers[c].op = "embed"
              THEN callers[c].result = embed(Fingerprinter(fp_args), callers[c].text)
              ELSE callers[c].shingles =
                       shingle(Fingerprinter(fp_args),
                               preprocess(Fingerprinter(fp_args), callers[c].text))

\* A call that began after another caller's and returned while that one was
\* still between its signature and its band keys.
C13_Witness ==
    \E c, d \in Callers :
        /\ c # d
        /\ callers[c].pc = "returned"
        /\ callers[c].op = "embed"
        /\ callers[c].result.shingles # {}
        /\ callers[d].pc = "band_keys"
        /\ callers[d].text # callers[c].text
        /\ callers[d].shingles # {}

\* ------------------------------------------------------- degenerate inputs

\* a/b >= c/d for a, c >= 0 and b, d > 0, by continued fractions, so that no
\* product is formed.
RECURSIVE FracGE(_, _, _, _)
FracGE(a, b, c, d) ==
    LET qa == a \div b
        qc == c \div d
        ra == a % b
        rc == c % d
    IN  IF qa # qc THEN qa > qc
        ELSE IF rc = 0 THEN TRUE
        ELSE IF ra = 0 THEN FALSE
        ELSE FracGE(d, rc, b, ra)

RECURSIVE SumOver(_, _)
SumOver(f, n) == IF n = 0 THEN 0 ELSE f[n] + SumOver(f, n - 1)

\* The cosine of two signatures of one length, in hundredths, rounded down:
\* dot / (norm_a * norm_b), and 0 when either norm is 0.
CosineScore(sig_a, sig_b) ==
    LET n == Len(sig_a)
        dot == SumOver([i \in 1..n |-> sig_a[i] * sig_b[i]], n)
        na2 == SumOver([i \in 1..n |-> sig_a[i] * sig_a[i]], n)
        nb2 == SumOver([i \in 1..n |-> sig_b[i] * sig_b[i]], n)
        x == 100 * dot
    IN  IF na2 = 0 \/ nb2 = 0 \/ dot = 0 THEN 0
        ELSE CHOOSE k \in 1..100 :
                /\ FracGE(x, k * k, na2 * nb2, x)
                /\ k < 100 => ~FracGE(x, (k + 1) * (k + 1), na2 * nb2, x)

\* What the nearest-neighbour query answers for the vector sig when the
\* collection holds one point, of vector other.
QueryAgainst(sig, other) ==
    Response(<< [id |-> "other", score |-> CosineScore(sig, other),
                 payload |-> <<>>] >>)

\* Caller c has embedded a text whose normalized form is shorter than the
\* minimum length.
Degenerate(c) ==
    /\ callers[c].pc = "returned"
    /\ callers[c].op = "embed"
    /\ fp.stop_short_lines # 0
    /\ Len(callers[c].norm) < fp.stop_short_lines

\* C14: a text whose normalized form is shorter than the minimum length gets
\* the all-sentinel signature and shingle_count 0, and is classified as a
\* duplicate of no other entry, real or degenerate.
C14_DegenerateNeverMatches ==
    \A c, d \in Callers :
        ( /\ c # d
          /\ Degenerate(c)
          /\ callers[d].pc = "returned"
          /\ callers[d].op = "embed"
          /\ callers[d].text # callers[c].text )
        => /\ AllSentinel(callers[c].result.signature)
           /\ callers[c].result.shingle_count = 0
           /\ ~IsDuplicate(QueryAgainst(callers[c].result.signature,
                                        callers[d].result.signature))

\* -------------------------------------------------------------- _preprocess

\* The characters of the texts normalized: a letter in upper case, a digit, a
\* word character that is neither, and white space.
NormChars == {"A", "1", "_", " "}

\* The texts normalized: long enough for a long token followed by a number.
NormTexts == UNION {[1..n -> NormChars] : n \in 0..(LongTokenLen + 2)}

\* What a step of _preprocess leaves alone: everything but its locals.
OnlyNormalize ==
    UNCHANGED <<ingest_vars, fp_state, fp_error, fp_args, fp, emb_text,
                emb_out, shg, callers, cmp, flt, rl>>

\* _preprocess(text) is called, lines 117-120 and 186.
Norm_Call ==
    /\ nz.pc = "idle"
    /\ \E text \in NormTexts, self \in Flags :
        nz' = [pc |-> "lower", self |-> self, text |-> text, s |-> text,
               steps |-> <<>>, pass |-> 1, out |-> <<>>]
    /\ OnlyNormalize

\* Lines 187-188: if lowercase: s = s.lower()
Norm_Lower ==
    /\ nz.pc = "lower"
    /\ nz' = [nz EXCEPT
           !.s = lower_step(nz.self, nz.s),
           !.steps = IF nz.self.lowercase THEN Append(@, "lower") ELSE @,
           !.pc = "long_alnum"]
    /\ OnlyNormalize

\* Line 216: s = RE_LONG_ALNUM.sub("<id>", s), under normalize_enabled. The
\* masks of lines 192-213 and 217 match no text of NormTexts.
Norm_LongAlnum ==
    /\ nz.pc = "long_alnum"
    /\ nz' = [nz EXCEPT
           !.s = IF nz.self.normalize_enabled
                 THEN RE_LONG_ALNUM_sub(@, 1) ELSE @,
           !.steps = IF nz.self.normalize_enabled
                     THEN Append(@, "long_alnum") ELSE @,
           !.pc = "num"]
    /\ OnlyNormalize

\* Line 220: s = RE_NUM.sub("<id>", s), under normalize_enabled.
Norm_Num ==
    /\ nz.pc = "num"
    /\ nz' = [nz EXCEPT
           !.s = IF nz.self.normalize_enabled THEN RE_NUM_sub(@, 1) ELSE @,
           !.steps = IF nz.self.normalize_enabled
                     THEN Append(@, "num") ELSE @,
           !.pc = "collapse"]
    /\ OnlyNormalize

\* Lines 222-223: if collapse_whitespace: squeeze the white space and strip.
Norm_Collapse ==
    /\ nz.pc = "collapse"
    /\ nz' = [nz EXCEPT
           !.s = collapse_step(nz.self, nz.s),
           !.steps = IF nz.self.collapse_whitespace
                     THEN Append(@, "collapse") ELSE @,
           !.pc = "return"]
    /\ OnlyNormalize

\* Line 225: return s
Norm_Return ==
    /\ nz.pc = "return"
    /\ nz' = [nz EXCEPT !.out = nz.s, !.pc = "returned"]
    /\ OnlyNormalize

\* The caller passes the text returned to _preprocess again, same flags.
Norm_Again ==
    /\ nz.pc = "returned"
    /\ nz.pass = 1
    /\ nz' = [nz EXCEPT !.text = nz.out, !.s = nz.out, !.steps = <<>>,
                        !.pass = 2, !.out = <<>>, !.pc = "lower"]
    /\ OnlyNormalize

NextNormalize ==
    \/ Norm_Call
    \/ Norm_Lower
    \/ Norm_LongAlnum
    \/ Norm_Num
    \/ Norm_Collapse
    \/ Norm_Return
    \/ Norm_Again

SpecNormalize == Init /\ [][NextNormalize]_vars

\* C15: normalization is idempotent: for every text and fixed flags, the
\* text returned by normalizing a normalized text is that normalized text.
C15_NormalizationIdempotent ==
    (nz.pc = "returned" /\ nz.pass = 2) => nz.out = nz.text

\* The place of a step in the order claimed: the masks (of those modelled,
\* long tokens before bare integers), then lower-casing, then the white space.
ClaimedRank(step) ==
    CASE step = "long_alnum" -> 1
      [] step = "num" -> 2
      [] step = "lower" -> 3
      [] step = "collapse" -> 4

\* C16: the steps of a normalization run in the fixed order: the masks, long
\* alphanumeric tokens before bare integers, and only after masking the
\* lower-casing and then the collapsing and trimming of white space.
C16_MasksThenLowerThenCollapse ==
    \A i, j \in 1..Len(nz.steps) :
        i < j => ClaimedRank(nz.steps[i]) < ClaimedRank(nz.steps[j])

\* ------------------------------------------------------- jaccard and compare

\* As if two empty sets had nothing in common.
jaccard_empty_is_zero(shingles_a, shingles_b) ==
    IF shingles_a = {} \/ shingles_b = {}
    THEN Ratio(0, 1)
    ELSE Ratio(Cardinality(shingles_a \cap shingles_b),
               Cardinality(shingles_a \cup shingles_b))

\* LSHMinHashEmbedder.jaccard, lines 104-113.
jaccard(shingles_a, shingles_b) ==
    IF shingles_a = {} /\ shingles_b = {}
    THEN Ratio(1, 1)
    ELSE IF shingles_a = {} \/ shingles_b = {}
    THEN Ratio(0, 1)
    ELSE Ratio(Cardinality(shingles_a \cap shingles_b),
               Cardinality(shingles_a \cup shingles_b))

\* sum(1 for x, y in zip(sig_a, sig_b) if x == y)
matches(sig_a, sig_b) ==
    LET n == IF Len(sig_a) < Len(sig_b) THEN Len(sig_a) ELSE Len(sig_b)
    IN  Cardinality({i \in 1..n : sig_a[i] = sig_b[i]})

\* As if the signatures were compared over the slots both have.
compare_over_shared_slots(a, b) ==
    IF Len(a) = 0
    THEN [error |-> "ZeroDivisionError", result |-> Ratio(0, 1)]
    ELSE [error |-> "none", result |-> Ratio(matches(a, b), Len(a))]

\* LshEmbedder.compare, lines 80-112: the error it raises, or what it returns.
compare(a, b) ==
    IF Len(a) # Len(b)
    THEN [error |-> "ValueError", result |-> Ratio(0, 1)]
    ELSE IF Len(a) = 0
    THEN [error |-> "ZeroDivisionError", result |-> Ratio(0, 1)]
    ELSE [error |-> "none", result |-> Ratio(matches(a, b), Len(a))]

\* The shingle sets and the signatures passed.
ShingleSets == SUBSET (0..MaxValue)
Signatures == UNION {[1..n -> 0..MaxValue] : n \in 0..MaxSigLen}

\* What a call of jaccard or compare leaves alone: they read no field.
OnlyCompare ==
    UNCHANGED <<ingest_vars, fp_state, fp_error, fp_args, fp, emb_text,
                emb_out, shg, callers, nz, flt, rl>>

\* jaccard(shingles_a, shingles_b) is called.
Jaccard_Call ==
    /\ cmp.pc = "idle"
    /\ \E shingles_a \in ShingleSets, shingles_b \in ShingleSets :
        cmp' = [NoCompare EXCEPT !.pc = "called", !.fn = "jaccard",
                                 !.a = shingles_a, !.b = shingles_b]
    /\ OnlyCompare

\* jaccard returns.
Jaccard_Return ==
    /\ cmp.pc = "called"
    /\ cmp.fn = "jaccard"
    /\ cmp' = [cmp EXCEPT !.pc = "returned", !.result = jaccard(cmp.a, cmp.b)]
    /\ OnlyCompare

\* compare(a, b) is called.
Compare_Call ==
    /\ cmp.pc = "idle"
    /\ \E a \in Signatures, b \in Signatures :
        cmp' = [NoCompare EXCEPT !.pc = "called", !.fn = "compare",
                                 !.a = a, !.b = b]
    /\ OnlyCompare

\* compare raises, lines 83-84 and 111-112, or returns, lines 107-109.
Compare_Return ==
    /\ cmp.pc = "called"
    /\ cmp.fn = "compare"
    /\ LET r == compare(cmp.a, cmp.b)
       IN  cmp' = [cmp EXCEPT
                      !.pc = IF r.error = "none" THEN "returned" ELSE "raised",
                      !.error = r.error,
                      !.result = r.result]
    /\ OnlyCompare

NextCompare ==
    \/ Jaccard_Call
    \/ Jaccard_Return
    \/ Compare_Call
    \/ Compare_Return

SpecCompare == Init /\ [][NextCompare]_vars

\* Two floats kept as quotients are the same float.
SameFloat(x, y) == x.num * y.den = y.num * x.den

\* C17: the exact Jaccard of two shingle sets is |A n B| / |A u B|, is 1.0
\* when both are empty and 0.0 when exactly one is; it lies in [0, 1], and
\* the Jaccard of a set with itself is exactly 1.0.
C17_ExactJaccard ==
    (cmp.pc = "returned" /\ cmp.fn = "jaccard") =>
        LET A == cmp.a
            B == cmp.b
            r == cmp.result
        IN  /\ r.den > 0
            /\ 0 <= r.num /\ r.num <= r.den
            /\ (A = {} /\ B = {}) => SameFloat(r, Ratio(1, 1))
            /\ ((A = {}) # (B = {})) => SameFloat(r, Ratio(0, 1))
            /\ (A # {} /\ B # {}) =>
                   r.num * Cardinality(A \cup B) =
                       Cardinality(A \cap B) * r.den
            /\ A = B => SameFloat(r, Ratio(1, 1))

\* jaccard has returned for two sets that overlap in part.
C17_Witness ==
    /\ cmp.pc = "returned"
    /\ cmp.fn = "jaccard"
    /\ cmp.a \cap cmp.b # {}
    /\ cmp.a \ cmp.b # {}
    /\ cmp.b \ cmp.a # {}
    /\ cmp.result = Ratio(1, 3)

\* compare has returned or raised.
CompareDone == cmp.fn = "compare" /\ cmp.pc \in {"returned", "raised"}

\* What compare returned is the fraction of the slots that hold equal values.
FractionOfEqualSlots ==
    /\ cmp.pc = "returned"
    /\ cmp.result.den > 0
    /\ cmp.result.num * Len(cmp.a) =
           Cardinality({i \in 1..Len(cmp.a) : cmp.a[i] = cmp.b[i]})
               * cmp.result.den

\* C18 as stated: compare returns the fraction of the indices at which two
\* signatures of the same length hold equal values, and fails with
\* LengthMismatchError, returning no value, when the lengths differ.
C18_FractionOrLengthMismatchError ==
    CompareDone =>
        IF Len(cmp.a) = Len(cmp.b)
        THEN FractionOfEqualSlots
        ELSE cmp.pc = "raised" /\ cmp.error = "LengthMismatchError"

\* C18: compare returns the fraction of the indices at which two signatures
\* of the same length, not zero, hold equal values, and fails with ValueError,
\* returning no value, when the lengths differ.
C18_FractionOrValueError ==
    CompareDone =>
        /\ (Len(cmp.a) = Len(cmp.b) /\ Len(cmp.a) > 0) => FractionOfEqualSlots
        /\ Len(cmp.a) # Len(cmp.b) =>
               cmp.pc = "raised" /\ cmp.error = "ValueError"

\* compare has returned for two signatures that agree in some slots only.
C18_Witness ==
    /\ CompareDone
    /\ cmp.pc = "returned"
    /\ \E i, j \in 1..Len(cmp.a) : cmp.a[i] = cmp.b[i] /\ cmp.a[j] # cmp.b[j]
    /\ cmp.result = Ratio(1, 2)

\* ---------------------------------------------------------- filter compiler

\* The values a spec can carry: None, a number or a string taken whole, a
\* list of those, a string given by its characters, a dict of bounds.
NoneValue == [tag |-> "none"]
Scalar(v) == [tag |-> "scalar", v |-> v]
List(items) == [tag |-> "list", items |-> items]
Str(chars) == [tag |-> "str", chars |-> chars]
Dict(d) == [tag |-> "dict", d |-> d]

\* _as_list, lines 13-18.
as_list(x) ==
    IF x.tag = "none" THEN <<>>
    ELSE IF x.tag = "list" THEN x.items
    ELSE <<x.v>>

\* (spec.get("op") or "equals").lower(), line 49, on the names modelled.
op_lower(op) ==
    CASE op = "IN" -> "in"
      [] op = "NOT_IN" -> "not_in"
      [] op = "Between" -> "between"
      [] OTHER -> op

\* (spec.get("dtype") or "string").lower(), line 48, on the names modelled.
dtype_lower(spec) ==
    IF "dtype" \notin DOMAIN spec THEN "string"
    ELSE IF spec.dtype = "DateTime" THEN "datetime"
    ELSE spec.dtype

\* models.FieldCondition(key=key, match=match)
FieldCondition(key, match) == [kind |-> "field", key |-> key, match |-> match]

\* models.FilterCondition(filter=filter)
FilterCondition(filter) == [kind |-> "filter", filter |-> filter]

\* models.FieldCondition(key=key, range=models.DatetimeRange(...)) and
\* models.FieldCondition(key=key, range=models.Range(...)), lines 102-121.
FieldRangeCondition(key, type, r) ==
    [kind |-> "field_range", key |-> key,
     range |-> [type |-> type, gt |-> r.gt, gte |-> r.gte,
                lt |-> r.lt, lte |-> r.lte]]

\* What a compilation hands back: the error raised and the object its
\* message shows, or the condition, the filter built.
RaisedFor(error, shown) ==
    [error |-> error, shown |-> shown, cond |-> [kind |-> "none"],
     filter |-> NoFilter]
Raised(error) == RaisedFor(error, NoneValue)

\* The place of the first comma of a string, 0 if it has none.
RECURSIVE CommaAt(_, _)
CommaAt(chars, i) ==
    IF i > Len(chars) THEN 0
    ELSE IF chars[i] = "," THEN i
    ELSE CommaAt(chars, i + 1)

\* No bound: the dict whose four keys are all absent.
NoBounds == [gt |-> NoneValue, gte |-> NoneValue,
             lt |-> NoneValue, lte |-> NoneValue]

\* r.get(k) for the four keys read at lines 105-108 and 116-119.
BoundsOfDict(d) ==
    [k \in {"gt", "gte", "lt", "lte"} |->
        IF k \in DOMAIN d THEN d[k] ELSE NoneValue]

\* _parse_range_value, lines 21-40, followed by the four r.get: the error
\* raised or the bounds.
parse_range_value(value) ==
    IF value.tag = "dict"
    THEN [error |-> "none", r |-> BoundsOfDict(value.d)]
    ELSE IF value.tag = "list" /\ Len(value.items) = 2
    THEN [error |-> "none",
          r |-> [NoBounds EXCEPT !.gte = Scalar(value.items[1]),
                                 !.lte = Scalar(value.items[2])]]
    ELSE IF value.tag = "str" /\ CommaAt(value.chars, 1) > 0
    THEN LET i == CommaAt(value.chars, 1)
         IN  [error |-> "none",
              r |-> [NoBounds EXCEPT
                        !.gte = Str(Strip(SubSeq(value.chars, 1, i - 1))),
                        !.lte = Str(Strip(SubSeq(value.chars, i + 1,
                                                 Len(value.chars))))]]
    ELSE [error |-> "ValueError", r |-> NoBounds]

\* As if a bound given as a pair were read as exclusive.
range_bounds_exclusive(op, value) ==
    IF op \in {"between", "range"}
    THEN LET p == parse_range_value(value)
         IN  [p EXCEPT !.r = [NoBounds EXCEPT !.gt = p.r.gte, !.lt = p.r.lte]]
    ELSE [error |-> "none", r |-> [NoBounds EXCEPT ![op] = value]]

\* Line 98: r = _parse_range_value(value) for between and range, else
\* {op: value}.
range_bounds(op, value) ==
    IF op \in {"between", "range"}
    THEN parse_range_value(value)
    ELSE [error |-> "none", r |-> [NoBounds EXCEPT ![op] = value]]

\* The elements of a sequence.
Range(seq) == {seq[i] : i \in 1..Len(seq)}

\* As if not_in built the same condition as in.
field_condition_not_in_as_in(spec) ==
    LET op == op_lower(spec.op)
    IN  IF spec.key = "" THEN Raised("ValueError")
        ELSE IF op \in {"in", "not_in"}
        THEN [Raised("none") EXCEPT !.cond = FieldCondition(spec.key,
                 [kind |-> "any", any |-> as_list(spec.value)])]
        ELSE Raised("ValueError")

\* _field_condition_from_atomic, lines 43-124, for the ops has_id, equals,
\* eq, in, not_in, the range ops and an op that is not supported (the text
\* and existence ops of lines 72-94 are not modelled): the error it raises
\* or the condition built.
field_condition_from_atomic(spec) ==
    LET op == op_lower(spec.op)
        dtype == dtype_lower(spec)
    IN  IF spec.key = "" /\ op # "has_id" THEN RaisedFor("ValueError", spec)
        ELSE IF op = "has_id"
        THEN [Raised("none") EXCEPT
                 !.cond = [kind |-> "has_id", has_id |-> as_list(spec.value)]]
        ELSE IF op \in {"equals", "eq"}
        THEN [Raised("none") EXCEPT !.cond = FieldCondition(spec.key,
                 [kind |-> "value", value |-> spec.value])]
        ELSE IF op = "in"
        THEN [Raised("none") EXCEPT !.cond = FieldCondition(spec.key,
                 [kind |-> "any", any |-> as_list(spec.value)])]
        ELSE IF op = "not_in"
        THEN [Raised("none") EXCEPT !.cond = FieldCondition(spec.key,
                 [kind |-> "except", except_ |-> as_list(spec.value)])]
        ELSE IF op \in {"gt", "gte", "lt", "lte", "between", "range"}
        THEN LET Bounded(b) ==
                     IF b.error # "none" THEN RaisedFor(b.error, spec.value)
                     ELSE IF dtype \in {"datetime", "date", "timestamp"}
                     THEN [Raised("none") EXCEPT !.cond =
                              FieldRangeCondition(spec.key, "datetime", b.r)]
                     ELSE [Raised("none") EXCEPT !.cond =
                              FieldRangeCondition(spec.key, "numeric", b.r)]
             IN  Bounded(range_bounds(op, spec.value))
        ELSE RaisedFor("ValueError", spec)

\* expr.get("logic") is set: the expression is logical, not atomic.
IsLogical(expr) == "logic" \in DOMAIN expr

\* logic.lower(), line 139, on the names modelled.
logic_lower(logic) == IF logic = "AND" THEN "and" ELSE logic

\* _build_filter_from_expr, lines 127-176: the error raised or the filter
\* built. clause_conditions is the loop over the clauses, which is the same
\* for the three logics. models.MinShould(min_count=1) is given no
\* conditions: the client either rejects that (validates) or builds the
\* clause with none.
RECURSIVE build_filter_from_expr(_, _), clause_conditions(_, _)
clause_conditions(clauses, validates) ==
    IF clauses = <<>>
    THEN [error |-> "none", shown |-> NoneValue, conds |-> <<>>]
    ELSE LET c == Head(clauses)
             Nested(f) == [f EXCEPT !.cond = FilterCondition(f.filter)]
             Before(cond, rest) ==
                 IF rest.error # "none" THEN rest
                 ELSE [rest EXCEPT !.conds = <<cond>> \o @]
             Then(first) ==
                 IF first.error # "none"
                 THEN [error |-> first.error, shown |-> first.shown,
                       conds |-> <<>>]
                 ELSE Before(first.cond,
                             clause_conditions(Tail(clauses), validates))
         IN  Then(IF IsLogical(c)
                  THEN Nested(build_filter_from_expr(c, validates))
                  ELSE field_condition_from_atomic(c))

build_filter_from_expr(expr, validates) ==
    IF ~IsLogical(expr)
    THEN LET Wrapped(c) ==
                 IF c.error # "none" THEN c
                 ELSE [c EXCEPT
                          !.filter = [NoFilter EXCEPT !.must = <<c.cond>>]]
         IN  Wrapped(field_condition_from_atomic(expr))
    ELSE IF expr.clauses = <<>> THEN RaisedFor("ValueError", expr)
    ELSE LET Built(logic, cs) ==
                 IF logic \notin {"and", "or", "not"}
                 THEN RaisedFor("ValueError", expr)
                 ELSE IF cs.error # "none" THEN RaisedFor(cs.error, cs.shown)
                 ELSE IF logic = "and"
                 THEN [Raised("none") EXCEPT
                          !.filter = [NoFilter EXCEPT !.must = cs.conds]]
                 ELSE IF logic = "or"
                 THEN IF validates THEN Raised("ValidationError")
                      ELSE [Raised("none") EXCEPT
                               !.filter = [NoFilter EXCEPT
                                   !.should = cs.conds,
                                   !.min_should = [conditions |-> <<>>,
                                                   min_count |-> 1]]]
                 ELSE [Raised("none") EXCEPT
                          !.filter = [NoFilter EXCEPT !.must_not = cs.conds]]
         IN  Built(logic_lower(expr.logic),
                   clause_conditions(expr.clauses, validates))

\* The field filtered on and the values it takes in a payload.
FieldValues == {"a", "b", "c", "d"}
Payloads == [status : FieldValues]

\* The atomic specs compiled on their own.
AtomicSpecs ==
    [key : {"status", ""},
     op : {"eq", "in", "not_in", "IN", "like"},
     value : {NoneValue, Scalar("a"), List(<<>>), List(<<"a", "b">>),
              List(<<"b", "c">>)}]

\* The atomic specs with a range op compiled on their own, and one with no
\* key, which has_id does not need.
RangeSpecs ==
    [key : {"ts", ""},
     dtype : {"number", "DateTime", "date", "blob"},
     op : {"gt", "gte", "lt", "lte", "between", "Between", "range"},
     value : {NoneValue, Scalar("1"),
              Dict([gte |-> Scalar("1"), lt |-> Scalar("2")]),
              Dict([min |-> Scalar("1")]),
              List(<<"1", "2">>), List(<<"1", "2", "1">>),
              Str(<<"1", ",", " ", "2">>), Str(<<" ", "1", ",", "2", ",">>),
              Str(<<"1", "2">>)}]
    \cup {[key |-> "", op |-> "has_id", value |-> List(<<"1", "2">>)]}

\* The atomic specs at the leaves of the logical specs.
LeafSpecs ==
    {[key |-> "status", op |-> "in", value |-> List(<<"a", "b">>)],
     [key |-> "status", op |-> "in", value |-> List(<<"b", "c">>)],
     [key |-> "status", op |-> "like", value |-> Scalar("a")],
     [key |-> "ts", dtype |-> "blob", op |-> "gt", value |-> Scalar("1")]}

\* The names given as logic.
Logics == {"and", "or", "not", "AND", "xor"}

\* The specs of exactly n nodes, and the clause lists of m nodes in all.
RECURSIVE SpecsOfSize(_), ClausesOfSize(_)
SpecsOfSize(n) ==
    IF n = 1
    THEN LeafSpecs \cup {[logic |-> l, clauses |-> <<>>] : l \in Logics}
    ELSE {[logic |-> l, clauses |-> cs] :
             l \in Logics, cs \in ClausesOfSize(n - 1)}

ClausesOfSize(m) ==
    IF m = 0 THEN {<<>>}
    ELSE UNION {{<<c>> \o cs : c \in SpecsOfSize(k),
                               cs \in ClausesOfSize(m - k)} : k \in 1..m}

\* The specs compiled.
Exprs == UNION {SpecsOfSize(n) : n \in 1..MaxNodes}

\* What a call of the compiler leaves alone: it reads no field.
OnlyCompile ==
    UNCHANGED <<ingest_vars, fp_state, fp_error, fp_args, fp, emb_text,
                emb_out, shg, callers, nz, cmp, rl>>

\* _field_condition_from_atomic(spec) is called; payload is the point the
\* condition will be applied to.
Atomic_Call ==
    /\ flt.pc = "idle"
    /\ \E spec \in AtomicSpecs \cup RangeSpecs, payload \in Payloads :
        flt' = [NoCompile EXCEPT !.pc = "called", !.fn = "atomic",
                                 !.expr = spec, !.payload = payload]
    /\ OnlyCompile

\* _field_condition_from_atomic raises or returns.
Atomic_Return ==
    /\ flt.pc = "called"
    /\ flt.fn = "atomic"
    /\ LET r == field_condition_from_atomic(flt.expr)
       IN  flt' = [flt EXCEPT
                      !.pc = IF r.error = "none" THEN "returned" ELSE "raised",
                      !.error = r.error,
                      !.shown = r.shown,
                      !.cond = r.cond]
    /\ OnlyCompile

\* _build_filter_from_expr(expr) is called, with a client that validates
\* what its constructors are given or one that does not.
Build_Call ==
    /\ flt.pc = "idle"
    /\ \E expr \in Exprs, payload \in Payloads, validates \in BOOLEAN :
        flt' = [NoCompile EXCEPT !.pc = "called", !.fn = "build",
                                 !.expr = expr, !.payload = payload,
                                 !.validates = validates]
    /\ OnlyCompile

\* _build_filter_from_expr raises or returns.
Build_Return ==
    /\ flt.pc = "called"
    /\ flt.fn = "build"
    /\ LET r == build_filter_from_expr(flt.expr, flt.validates)
       IN  flt' = [flt EXCEPT
                      !.pc = IF r.error = "none" THEN "returned" ELSE "raised",
                      !.error = r.error,
                      !.shown = r.shown,
                      !.filter = r.filter]
    /\ OnlyCompile

\* mode.lower(), line 194, on the names modelled.
mode_lower(mode) == IF mode = "AND" THEN "and" ELSE mode

\* [_field_condition_from_atomic(s) for s in specs], line 203: the error of
\* the first spec that raises, or the conditions in the order of the specs.
RECURSIVE atomic_conditions(_)
atomic_conditions(specs) ==
    IF specs = <<>> THEN [error |-> "none", conds |-> <<>>]
    ELSE LET first == field_condition_from_atomic(Head(specs))
         IN  IF first.error # "none"
             THEN [error |-> first.error, conds |-> <<>>]
             ELSE LET rest == atomic_conditions(Tail(specs))
                  IN  IF rest.error # "none" THEN rest
                      ELSE [rest EXCEPT !.conds = <<first.cond>> \o @]

\* [_build_filter_from_expr(s) for s in specs], line 198.
RECURSIVE built_filters(_, _)
built_filters(specs, validates) ==
    IF specs = <<>> THEN [error |-> "none", filters |-> <<>>]
    ELSE LET first == build_filter_from_expr(Head(specs), validates)
         IN  IF first.error # "none"
             THEN [error |-> first.error, filters |-> <<>>]
             ELSE LET rest == built_filters(Tail(specs), validates)
                  IN  IF rest.error # "none" THEN rest
                      ELSE [rest EXCEPT !.filters = <<first.filter>> \o @]

\* What adapter_specs_to_filters hands back: an error, one filter or a list.
Adapted(error, shape, filter, filters) ==
    [error |-> error, shape |-> shape, filter |-> filter, filters |-> filters]

\* As if mode or wrapped the conditions as alternatives.
adapter_or_as_should(specs, mode, validates) ==
    IF \E i \in 1..Len(specs) : IsLogical(specs[i])
    THEN LET fs == built_filters(specs, validates)
         IN  IF fs.error # "none"
             THEN Adapted(fs.error, "none", NoFilter, <<>>)
             ELSE Adapted("none", "list", NoFilter, fs.filters)
    ELSE LET cs == atomic_conditions(specs)
         IN  IF cs.error # "none"
             THEN Adapted(cs.error, "none", NoFilter, <<>>)
             ELSE IF mode_lower(mode) = "and"
             THEN Adapted("none", "single",
                          [NoFilter EXCEPT !.must = cs.conds], <<>>)
             ELSE Adapted("none", "single",
                          [NoFilter EXCEPT !.should = cs.conds], <<>>)

\* As if a list with a logical spec were still wrapped according to mode.
adapter_always_single(specs, mode, validates) ==
    LET cs == clause_conditions(specs, validates)
    IN  IF cs.error # "none" THEN Adapted(cs.error, "none", NoFilter, <<>>)
        ELSE Adapted("none", "single",
                     [NoFilter EXCEPT !.must = cs.conds], <<>>)

\* adapter_specs_to_filters, lines 179-212.
adapter_specs_to_filters(specs, mode, validates) ==
    IF \E i \in 1..Len(specs) : IsLogical(specs[i])
    THEN LET fs == built_filters(specs, validates)
         IN  IF fs.error # "none"
             THEN Adapted(fs.error, "none", NoFilter, <<>>)
             ELSE Adapted("none", "list", NoFilter, fs.filters)
    ELSE LET cs == atomic_conditions(specs)
         IN  IF cs.error # "none"
             THEN Adapted(cs.error, "none", NoFilter, <<>>)
             ELSE IF mode_lower(mode) = "and"
             THEN Adapted("none", "single",
                          [NoFilter EXCEPT !.must = cs.conds], <<>>)
             ELSE IF mode_lower(mode) = "or"
             THEN Adapted("NotImplementedError", "none", NoFilter, <<>>)
             ELSE Adapted("ValueError", "none", NoFilter, <<>>)

\* The specs in the lists compiled: atomic ones and logical ones.
ListedSpecs ==
    LeafSpecs \cup
    {[logic |-> l, clauses |-> <<c>>] :
        l \in {"and", "or"},
        c \in {[key |-> "status", op |-> "in", value |-> List(<<"a", "b">>)]}}

\* The lists of specs compiled, and the modes.
SpecLists == UNION {[1..n -> ListedSpecs] : n \in 0..MaxSpecs}
Modes == {"and", "or", "AND", "xor"}

\* adapter_specs_to_filters(specs, mode=mode) is called.
Adapter_Call ==
    /\ flt.pc = "idle"
    /\ \E specs \in SpecLists, mode \in Modes, validates \in BOOLEAN :
        flt' = [NoCompile EXCEPT !.pc = "called", !.fn = "adapter",
                                 !.specs = specs, !.mode = mode,
                                 !.validates = validates]
    /\ OnlyCompile

\* adapter_specs_to_filters raises or returns.
Adapter_Return ==
    /\ flt.pc = "called"
    /\ flt.fn = "adapter"
    /\ LET r == adapter_specs_to_filters(flt.specs, flt.mode, flt.validates)
       IN  flt' = [flt EXCEPT
                      !.pc = IF r.error = "none" THEN "returned" ELSE "raised",
                      !.error = r.error,
                      !.shape = r.shape,
                      !.filter = r.filter,
                      !.filters = r.filters]
    /\ OnlyCompile

NextCompile ==
    \/ Atomic_Call
    \/ Atomic_Return
    \/ Build_Call
    \/ Build_Return
    \/ Adapter_Call
    \/ Adapter_Return

SpecCompile == Init /\ [][NextCompile]_vars

\* A match of a field condition holds of the value v of the field.
MatchHolds(match, v) ==
    CASE match.kind = "value" ->
             match.value.tag = "scalar" /\ match.value.v = v
      [] match.kind = "any" ->
             \E i \in 1..Len(match.any) : match.any[i] = v
      [] match.kind = "except" ->
             \A i \in 1..Len(match.except_) : match.except_[i] # v

\* A condition, a filter, holds of a payload: every must condition holds,
\* some should condition does if there is any, at least min_count of the
\* conditions of min_should do, and no must_not condition does.
RECURSIVE CondHolds(_, _), FilterHolds(_, _)
CondHolds(cond, payload) ==
    IF cond.kind = "filter"
    THEN FilterHolds(cond.filter, payload)
    ELSE MatchHolds(cond.match, payload[cond.key])

FilterHolds(f, payload) ==
    /\ \A i \in 1..Len(f.must) : CondHolds(f.must[i], payload)
    /\ \/ f.should = <<>>
       \/ \E i \in 1..Len(f.should) : CondHolds(f.should[i], payload)
    /\ Cardinality({i \in 1..Len(f.min_should.conditions) :
                       CondHolds(f.min_should.conditions[i], payload)})
           >= f.min_should.min_count
    /\ \A i \in 1..Len(f.must_not) : ~CondHolds(f.must_not[i], payload)

\* An atomic spec, read as a predicate, holds of a payload.
AtomicHolds(spec, payload) ==
    LET op == op_lower(spec.op)
        v == payload[spec.key]
        listed == {as_list(spec.value)[i] : i \in 1..Len(as_list(spec.value))}
    IN  CASE op = "eq" -> spec.value = Scalar(v)
          [] op = "in" -> v \in listed
          [] op = "not_in" -> v \notin listed

\* A spec, read as a predicate, holds of a payload: and is true iff every
\* clause holds, or iff at least one does, not iff none does.
RECURSIVE SpecHolds(_, _)
SpecHolds(expr, payload) ==
    IF ~IsLogical(expr) THEN AtomicHolds(expr, payload)
    ELSE LET n == Len(expr.clauses)
             logic == logic_lower(expr.logic)
         IN  CASE logic = "and" ->
                      \A i \in 1..n : SpecHolds(expr.clauses[i], payload)
               [] logic = "or" ->
                      \E i \in 1..n : SpecHolds(expr.clauses[i], payload)
               [] logic = "not" ->
                      \A i \in 1..n : ~SpecHolds(expr.clauses[i], payload)

\* A spec the compiler accepts: its logics are and, or, not over clause lists
\* that are not empty, its atomic specs have a key and a supported op.
RECURSIVE WellFormed(_)
WellFormed(expr) ==
    IF ~IsLogical(expr)
    THEN expr.key # "" /\ op_lower(expr.op) \in {"eq", "in", "not_in"}
    ELSE /\ logic_lower(expr.logic) \in {"and", "or", "not"}
         /\ expr.clauses # <<>>
         /\ \A i \in 1..Len(expr.clauses) : WellFormed(expr.clauses[i])

\* _build_filter_from_expr has returned or raised.
BuildDone == flt.fn = "build" /\ flt.pc \in {"returned", "raised"}

\* C19: compiling a logical spec yields a predicate that is true iff every
\* clause holds (and), iff at least one clause holds (or), iff none of the
\* clauses holds (not), a logical clause being compiled in the same way and
\* embedded at its position, to any depth.
C19_LogicalSpecCompilesToItsPredicate ==
    (BuildDone /\ WellFormed(flt.expr)) =>
        /\ flt.pc = "returned"
        /\ FilterHolds(flt.filter, flt.payload)
               = SpecHolds(flt.expr, flt.payload)

\* _field_condition_from_atomic was called with op in or not_in (in either
\* case of letters), a key and a list, and has returned or raised.
ListSpecDone(op) ==
    /\ flt.fn = "atomic"
    /\ flt.pc \in {"returned", "raised"}
    /\ flt.expr.key # ""
    /\ op_lower(flt.expr.op) = op
    /\ flt.expr.value.tag = "list"

\* The value of the payload under the key of the spec is one of those listed.
ValueListed ==
    \E i \in 1..Len(flt.expr.value.items) :
        flt.expr.value.items[i] = flt.payload[flt.expr.key]

\* C20: an atomic spec with op in and a list compiles to one membership
\* condition on the key of the spec that holds of exactly the values listed;
\* with op not_in it compiles to the exclusion condition on the same key and
\* values, which holds of exactly the values not listed.
C20_InAndNotInCompile ==
    /\ ListSpecDone("in") =>
           /\ flt.pc = "returned"
           /\ flt.cond.kind = "field"
           /\ flt.cond.key = flt.expr.key
           /\ flt.cond.match.kind = "any"
           /\ flt.cond.match.any = flt.expr.value.items
           /\ CondHolds(flt.cond, flt.payload) = ValueListed
    /\ ListSpecDone("not_in") =>
           /\ flt.pc = "returned"
           /\ flt.cond.kind = "field"
           /\ flt.cond.key = flt.expr.key
           /\ flt.cond.match.kind = "except"
           /\ flt.cond.match.except_ = flt.expr.value.items
           /\ CondHolds(flt.cond, flt.payload) = ~ValueListed

\* A spec with op not_in and the list a, b was compiled, and the condition
\* holds of the payload, whose value is neither.
C20_Witness ==
    /\ ListSpecDone("not_in")
    /\ flt.pc = "returned"
    /\ flt.expr.value.items = <<"a", "b">>
    /\ flt.payload.status = "c"
    /\ CondHolds(flt.cond, flt.payload)

\* adapter_specs_to_filters was called on a list without a logical spec,
\* with the mode given, and has returned or raised.
FlatListDone(mode) ==
    /\ flt.fn = "adapter"
    /\ flt.pc \in {"returned", "raised"}
    /\ \A i \in 1..Len(flt.specs) : ~IsLogical(flt.specs[i])
    /\ mode_lower(flt.mode) = mode

\* Every spec of the list compiles on its own.
AllCompile ==
    \A i \in 1..Len(flt.specs) :
        field_condition_from_atomic(flt.specs[i]).error = "none"

\* The result is one conjunction of the conditions of the specs, in order.
ConjunctionInOrder ==
    /\ flt.pc = "returned"
    /\ flt.shape = "single"
    /\ flt.filter.should = <<>> /\ flt.filter.must_not = <<>>
    /\ Len(flt.filter.must) = Len(flt.specs)
    /\ \A i \in 1..Len(flt.specs) :
           flt.filter.must[i] = field_condition_from_atomic(flt.specs[i]).cond

MalformedAtomic(spec) ==
    LET op == op_lower(spec.op)
    IN  \/ spec.key = "" /\ op # "has_id"
        \/ op \notin {"has_id", "equals", "eq", "in", "not_in", "gt", "gte",
                       "lt", "lte", "between", "range"}
        \/ dtype_lower(spec) \notin {"string", "number", "boolean",
                                      "datetime", "date", "timestamp"}
        \/ /\ op \in {"between", "range"}
           /\ spec.value.tag # "dict"
           /\ ~(spec.value.tag = "list" /\ Len(spec.value.items) = 2)
           /\ ~(spec.value.tag = "str" /\ "," \in Range(spec.value.chars))

\* The malformed specs of a spec tree: malformed atomic specs and logical
\* specs with no clauses.
RECURSIVE MalformedIn(_)
MalformedIn(expr) ==
    IF ~IsLogical(expr)
    THEN IF MalformedAtomic(expr) THEN {expr} ELSE {}
    ELSE IF expr.clauses = <<>> THEN {expr}
    ELSE UNION {MalformedIn(expr.clauses[i]) : i \in 1..Len(expr.clauses)}

\* A spec was compiled, on its own or as a tree: the call has ended.
CompileDone ==
    flt.fn \in {"atomic", "build"} /\ flt.pc \in {"returned", "raised"}

\* C22: compiling a spec tree that holds a malformed spec anywhere (a missing
\* key, an unsupported op, an unsupported dtype, an unsupported shape of range
\* value, a logical spec with no clauses) returns no predicate and fails with
\* a ValidationError that names the offending spec.
C22_MalformedSpecFailsNamingIt ==
    (CompileDone /\ MalformedIn(flt.expr) # {}) =>
        /\ flt.pc = "raised"
        /\ flt.error = "ValidationError"
        /\ flt.shown \in MalformedIn(flt.expr)

\* _field_condition_from_atomic was called on a spec with a key and a range
\* op, and has returned or raised.
RangeSpecDone ==
    /\ flt.fn = "atomic"
    /\ flt.pc \in {"returned", "raised"}
    /\ flt.expr.key # ""
    /\ op_lower(flt.expr.op) \in {"gt", "gte", "lt", "lte", "between", "range"}

\* The range built has the bounds gte and lte given and no other.
BoundedBy(gte, lte) ==
    /\ flt.pc = "returned"
    /\ flt.cond.range.gte = gte /\ flt.cond.range.lte = lte
    /\ flt.cond.range.gt = NoneValue /\ flt.cond.range.lt = NoneValue

\* C23: for the range ops the value becomes bounds over exactly the keys gte,
\* gt, lte, lt before the predicate is built: for between and range a dict
\* gives its bounds, a sequence [a, b] and a string "a, b" give gte = a and
\* lte = b; a single op gt, gte, lt, lte gives that bound only; the predicate
\* is date-typed when dtype is a datetime type and numeric otherwise.
C23_RangeValueNormalized ==
    RangeSpecDone =>
        LET op == op_lower(flt.expr.op)
            value == flt.expr.value
            r == flt.cond.range
        IN  /\ flt.pc = "returned" =>
                   /\ flt.cond.key = flt.expr.key
                   /\ DOMAIN r = {"type", "gt", "gte", "lt", "lte"}
                   /\ r.type = IF dtype_lower(flt.expr) \in
                                    {"datetime", "date", "timestamp"}
                                THEN "datetime" ELSE "numeric"
            /\ op \notin {"between", "range"} =>
                   /\ flt.pc = "returned"
                   /\ \A k \in {"gt", "gte", "lt", "lte"} :
                          r[k] = IF k = op THEN value ELSE NoneValue
            /\ (op \in {"between", "range"} /\ value.tag = "dict") =>
                   /\ flt.pc = "returned"
                   /\ \A k \in {"gt", "gte", "lt", "lte"} :
                          r[k] = IF k \in DOMAIN value.d THEN value.d[k]
                                 ELSE NoneValue
            /\ (op \in {"between", "range"} /\ value.tag = "list"
                    /\ Len(value.items) = 2) =>
                   BoundedBy(Scalar(value.items[1]), Scalar(value.items[2]))
            /\ (op \in {"between", "range"} /\ value.tag = "str") =>
                   \A i \in 1..Len(value.chars) :
                       ( /\ value.chars[i] = ","
                         /\ \A j \in 1..(i - 1) : value.chars[j] # "," )
                       => BoundedBy(
                              Str(Strip(SubSeq(value.chars, 1, i - 1))),
                              Str(Strip(SubSeq(value.chars, i + 1,
                                               Len(value.chars)))))

\* The string "1, 2" was compiled as the range of a datetime field.
C23_Witness ==
    /\ RangeSpecDone
    /\ flt.pc = "returned"
    /\ flt.expr.op = "Between"
    /\ flt.expr.dtype = "DateTime"
    /\ flt.expr.value = Str(<<"1", ",", " ", "2">>)
    /\ flt.cond.range.type = "datetime"
    /\ flt.cond.range.gte = Str(<<"1">>)
    /\ flt.cond.range.lte = Str(<<"2">>)

\* adapter_specs_to_filters has returned.
AdapterReturned == flt.fn = "adapter" /\ flt.pc = "returned"

\* Some spec of the list handed to adapter_specs_to_filters has a logic key.
SomeLogical == \E i \in 1..Len(flt.specs) : IsLogical(flt.specs[i])

LookupWriteFailed == pc = "returned" /\ outcome = "insert_into_lookup_db raised"

\* C28: when a lookup-store write fails for an entry during insert_logs, the
\* call ends with that error, no entry of the batch has been inserted into
\* the vector store (nothing was upserted, the points are those of the
\* start), and the rows written for the earlier entries of the batch are
\* still in the lookup store.
C28_FailedWriteLeavesEarlierRows ==
    LookupWriteFailed =>
        /\ upserted = <<>>
        /\ points = points_before
        /\ Len(writes) >= 1
        /\ \A k \in 1..(Len(writes) - 1) :
              \E r \in lookup : r.id = writes[k].id

\* The second write of a batch raised after the first one stored the row of
\* an entry that was queued for insertion and is not in the vector store.
C28_Witness ==
    /\ LookupWriteFailed
    /\ Len(writes) = 2
    /\ writes[1] \in lookup
    /\ writes[1].closest_log_id = writes[1].id
    /\ vector_store_inserts # <<>>
    /\ writes[1].id \notin PointIds

\* What insert_logs ends with when a call of the method raised: the error the
\* method raised.
ErrorOf(to) ==
    CASE to = "search_batch" -> "search_batch raised"
      [] to = "insert_into_lookup_db" -> "insert_into_lookup_db raised"
      [] to = "upsert" -> "upsert raised"

\* C25: a call on the vector store or on the lookup store that raises is the
\* last call insert_logs makes: the call ends at once with that same error;
\* and no call is tried twice: within one insert_logs there is at most one
\* batched query, one lookup write per entry and one upsert per queued entry.
C25_FailurePropagatesNoRetry ==
    /\ \A i, j \in 1..Len(calls) :
          i < j => <<calls[i].to, calls[i].item>> # <<calls[j].to, calls[j].item>>
    /\ \A i \in 1..Len(calls) :
          calls[i].raised =>
              /\ i = Len(calls)
              /\ pc = "returned"
              /\ outcome = ErrorOf(calls[i].to)

\* An upsert raised after the query, two lookup writes and one upsert went
\* through.
C25_Witness ==
    /\ pc = "returned"
    /\ outcome = "upsert raised"
    /\ Len(calls) = 5
    /\ calls[5] = Call("upsert", 2, TRUE)
    /\ calls[4] = Call("upsert", 1, FALSE)
    /\ Len(upserted) = 1

\* ------------------------------------------- ingestion, every call succeeding

\* The step raises nothing and the engine answered each query of the batch.
Succeeds ==
    /\ outcome' \in {"none", "ok"}
    /\ \A k \in 1..Len(search_results') : ~search_results'[k].isNone

\* insert_logs called again and again on the stores of Init, each call
\* returning normally, the stores never cleared.
NextSuccessful ==
    \/ InsertLogs_Search /\ Succeeds
    \/ InsertLogs_Loop /\ Succeeds
    \/ InsertLogs_Inserts /\ Succeeds
    \/ Return

SpecSuccessful == Init /\ [][NextSuccessful]_vars

\* The row of the lookup table with this id is canonical.
SelfReferencing(id) ==
    /\ \E q \in lookup : q.id = id
    /\ \A q \in lookup :
          q.id = id => q.closest_log_id = id /\ q.similarity = 100

\* C26: between calls of insert_logs that all returned normally on stores
\* that started empty, the closest_log_id of every row of the lookup table
\* is the id of a point of the vector store, and the row of that id is
\* self-referencing with similarity 1.0: no row points at a duplicate.
C26_ChainsOfDepthOne ==
    pc = "idle" =>
        \A r \in lookup :
            /\ r.closest_log_id \in PointIds
            /\ SelfReferencing(r.closest_log_id)

\* Between calls, the table holds the row of a duplicate, and the store
\* holds two points within the threshold of each other that one batch
\* inserted together.
C26_Witness ==
    /\ pc = "idle"
    /\ \E r \in lookup : r.closest_log_id # r.id
    /\ \E p, q \in points :
          /\ p.id # q.id
          /\ Score(p.vector, q.vector) >= insert_sim_threshold

\* --------------------------------------------- ingestion, one entry per call

\* The caller hands insert_logs one entry at a time; the calls may fail and
\* the stores may be cleared and reset.
NextSerial ==
    \/ InsertLogs_Search /\ Len(log_entries') = 1
    \/ InsertLogs_Loop
    \/ InsertLogs_Inserts
    \/ Return
    \/ Clear
    \/ Reset

SpecSerial == Init /\ [][NextSerial]_vars

\* C27: when every insert_logs batch holds a single entry and the engine
\* answers with an exact nearest neighbour under a symmetric score, no two
\* distinct points of the vector store are within insert_sim_threshold of
\* each other.
C27_NoTwoPointsWithinThreshold ==
    \A p, q \in points :
        p.id # q.id => Score(p.vector, q.vector) < insert_sim_threshold

\* The store holds two points, and a call for an entry within the threshold
\* of both of them has returned normally without inserting it.
C27_Witness ==
    /\ pc = "returned"
    /\ outcome = "ok"
    /\ Cardinality(points) = 2
    /\ Len(writes) = 1
    /\ \A p \in points :
          Score(Embed(log_entries[1].text), p.vector) >= insert_sim_threshold
    /\ writes[1].closest_log_id # writes[1].id
    /\ writes[1].id \notin PointIds

\* ------------------------------------------------------------ sync_similarty

\* self.sim_sync_batch_size, the limit of the scroll.
sim_sync_batch_size == 2

\* The calls of sync_similarty that are followed.
MaxRuns == 2

\* Metadata in which the caller repeats the text of the entry.
MetaText == Append(MetaPlain, <<"textPayload", "E3">>)

\* The point insert_logs stores for an entry.
StoredPoint(text, metadata) == PointOf(Annotate(Entry(text, metadata), 1))

\* VectorStore.update_payload_conditional({"sim_sync": True}) on one point.
MarkSynced(p) == [p EXCEPT !.payload = DictSet(@, "sim_sync", "True")]

\* The points a collection may hold when sync_similarty is called: those of
\* E1, E2 and E3 as insert_logs stores them, E3 also with its text repeated
\* in the metadata, E2 also after its flag was set.
RelinkPoints ==
    { StoredPoint("E1", MetaPlain), StoredPoint("E2", MetaPlain),
      MarkSynced(StoredPoint("E2", MetaPlain)),
      StoredPoint("E3", MetaPlain), StoredPoint("E3", MetaText) }

RelinkStores ==
    { s \in SUBSET RelinkPoints : \A p, q \in s : p.id = q.id => p = q }

\* The stores hold some points and their self-referencing rows.
InitRelink ==
    /\ collection_exists = TRUE
    /\ pc = "idle"
    /\ log_entries = <<>>
    /\ search_results = <<>>
    /\ idx = 1
    /\ vector_store_inserts = <<>>
    /\ outcome = "none"
    /\ writes = <<>>
    /\ upserted = <<>>
    /\ calls = <<>>
    /\ points_before = {}
    /\ clock = 1
    /\ fp_state = "ready"
    /\ fp_error = "none"
    /\ fp_args = HandlerArgs
    /\ fp = Fingerprinter(HandlerArgs)
    /\ emb_text = <<>>
    /\ emb_out = NoEmbedding
    /\ shg = NoShingles
    /\ callers = [c \in Callers |-> IdleCaller]
    /\ InitFn
    /\ points \in RelinkStores
    /\ lookup = { LookupRecord(p.id, p.id, 100,
                               DictGet(p.payload, "timestamp", ""),
                               DictGet(p.payload, "pod_name", "")) : p \in points }
    /\ ingested = {p.id : p \in points}

\* sync_similarty assigns its locals only.
OnlyRelink ==
    UNCHANGED <<ingest_vars, fp_state, fp_error, fp_args, fp, emb_text,
                emb_out, shg, callers, nz, cmp, flt>>

\* Lines 162-164: the filter sim_sync == False.
SyncFilter ==
    adapter_specs_to_filters(
        << [key |-> "sim_sync", dtype |-> "boolean", op |-> "equals",
            value |-> Scalar("False")] >>, "and", TRUE).filter

\* The payload of a point, by key.
PayloadOf(p) ==
    [k \in {p.payload[i][1] : i \in 1..Len(p.payload)} |->
        DictGet(p.payload, k, "")]

\* The points of the collection a filter selects.
Matching(filter, pts) == {p \in pts : FilterHolds(filter, PayloadOf(p))}

\* client.scroll with a limit, of the points its filter selects: the first
\* `limit` of them, in the engine's order.
Scroll(sel, limit) ==
    LET n == IF Cardinality(sel) < limit THEN Cardinality(sel) ELSE limit
    IN  { s \in [1..n -> sel] : \A i, j \in 1..n : i < j => s[i] # s[j] }

\* Line 172: the query texts.
TextsOf(pts) ==
    [i \in 1..Len(pts) |-> DictGet(pts[i].payload, "textPayload", "")]

\* The engine answers a request it has answered on the same collection as it
\* answered it then.
AsBefore(answer, before) ==
    (rl.first.outcome # "none" /\ rl.first.points = points /\ before # <<>>)
        => answer = before

\* What a call that ended leaves to compare the next one with.
Ended(r) ==
    [outcome |-> r.outcome, unsync_points |-> r.unsync_points,
     search_results |-> r.search_results,
     edges_to_update |-> r.edges_to_update, points |-> points]

\* Lines 162-169: the filter is compiled and the flagged points are scrolled.
Relink_Scroll ==
    /\ rl.pc = "idle"
    /\ rl.runs < MaxRuns
    /\ \/ rl' = [rl EXCEPT !.pc = "returned", !.outcome = "scroll raised",
                          !.calls = <<"scroll">>]
       \/ \E sel \in {Matching(SyncFilter, points)} :
          \E ans \in Scroll(sel, sim_sync_batch_size) :
             /\ AsBefore(ans, rl.first.unsync_points)
             /\ rl' = [rl EXCEPT !.pc = "scrolled", !.unsync_points = ans,
                                 !.calls = <<"scroll">>]
    /\ OnlyRelink

\* Lines 172-177: one query per scrolled point, two results each, under the
\* same filter.
Relink_Query ==
    /\ rl.pc = "scrolled"
    /\ \/ rl' = [rl EXCEPT !.pc = "returned",
                          !.outcome = "search_batch raised",
                          !.calls = Append(@, "query_batch_points")]
       \/ \E sel \in {Matching(SyncFilter, points)} :
          \E res \in SearchBatch(TextsOf(rl.unsync_points), 2, sel) :
             /\ AsBefore(res, rl.first.search_results)
             /\ rl' = [rl EXCEPT
                          !.pc = IF res = <<>> THEN "returned" ELSE "loop",
                          !.outcome = IF res = <<>> THEN "ok" ELSE "none",
                          !.search_results = res,
                          !.i = 1,
                          !.calls = Append(@, "query_batch_points")]
    /\ OnlyRelink

\* What a turn of the loop of lines 182-187 leaves in the locals.
RelinkTurn ==
    LET point == rl.unsync_points[rl.i]
        result == rl.search_results[rl.i]
        last == rl.i = Len(rl.unsync_points)
        next == [rl EXCEPT !.i = IF last THEN 1 ELSE rl.i + 1,
                           !.pc = IF last THEN "returned" ELSE "loop",
                           !.outcome = IF last THEN "ok" ELSE "none"]
    IN  IF result.points = <<>> THEN next
        ELSE IF Len(result.points) < 2
        THEN [rl EXCEPT !.pc = "returned", !.outcome = "IndexError"]
        ELSE [next EXCEPT !.edges_to_update =
                 Append(@, <<point.id, result.points[2].id,
                             result.points[2].score>>)]

\* As if the loop also set the flag of each point it handled.
Relink_LoopMarking ==
    /\ rl.pc = "loop"
    /\ rl' = RelinkTurn
    /\ points' = Upsert(points, MarkSynced(rl.unsync_points[rl.i]))
    /\ UNCHANGED <<collection_exists, lookup, pc, log_entries, search_results,
                   idx, vector_store_inserts, outcome, writes, upserted,
                   calls, points_before, ingested, clock, fp_state, fp_error,
                   fp_args, fp, emb_text, emb_out, shg, callers, nz, cmp, flt>>

\* Lines 182-187: one turn of the loop over zip(unsync_points, search_results).
Relink_Loop ==
    /\ rl.pc = "loop"
    /\ rl' = RelinkTurn
    /\ OnlyRelink

\* The caller takes the edges (line 189) or the error; the first call's
\* scan and result are kept for comparison.
Relink_Return ==
    /\ rl.pc = "returned"
    /\ rl' = [NoRelink EXCEPT
                 !.runs = rl.runs + 1,
                 !.first = IF rl.runs = 0 THEN Ended(rl) ELSE rl.first]
    /\ OnlyRelink

NextRelink == Relink_Scroll \/ Relink_Query \/ Relink_Loop \/ Relink_Return

SpecRelink == InitRelink /\ [][NextRelink]_vars

\* ----------------------------------------------------- sync_similarty claims

\* sync_similarty has ended and neither store call raised.
RelinkEnded ==
    /\ rl.pc = "returned"
    /\ rl.outcome \notin {"scroll raised", "search_batch raised"}

\* The edges returned for a point.
EdgesOf(id) ==
    {k \in 1..Len(rl.edges_to_update) : rl.edges_to_update[k][1] = id}

\* C24: sync_similarty returns its list, holding for each scanned point
\* flagged sim_sync = false one edge (id, neighbor_id, similarity) whose
\* neighbour is the nearest flagged point other than the point itself, with
\* their similarity, and no edge for a point that has no neighbour other than
\* itself.
C24_EdgeToSecondNearest ==
    RelinkEnded =>
        /\ rl.outcome = "ok"
        /\ \A i \in 1..Len(rl.unsync_points) :
              LET p == rl.unsync_points[i]
                  others == {q \in Matching(SyncFilter, points) : q.id # p.id}
              IN  IF others = {}
                  THEN EdgesOf(p.id) = {}
                  ELSE /\ Cardinality(EdgesOf(p.id)) = 1
                       /\ \A k \in EdgesOf(p.id) :
                             LET e == rl.edges_to_update[k]
                             IN  /\ e[2] # p.id
                                 /\ \E q \in others :
                                       /\ q.id = e[2]
                                       /\ e[3] = Score(p.vector, q.vector)
                                       /\ \A o \in others :
                                             Score(p.vector, q.vector)
                                                 >= Score(p.vector, o.vector)

\* C29: sync_similarty calls only scroll and query_batch_points and leaves
\* the collection, every point's sim_sync flag included, and the lookup table
\* as they were; a second call on the unchanged stores scans the same
\* points and ends as the first did, with the same edges.
C29_RelinkReadOnly ==
    [][ rl' # rl =>
          /\ points' = points
          /\ lookup' = lookup
          /\ collection_exists' = collection_exists
          /\ \A k \in 1..Len(rl'.calls) :
                rl'.calls[k] \in {"scroll", "query_batch_points"}
          /\ ( /\ rl'.pc = "returned"
               /\ rl'.runs > 0
               /\ rl'.first.points = points'
               /\ rl'.outcome \in {"ok", "IndexError"}
               /\ rl'.first.outcome \in {"ok", "IndexError"} )
             => /\ rl'.unsync_points = rl'.first.unsync_points
                /\ rl'.outcome = rl'.first.outcome
                /\ rl'.edges_to_update = rl'.first.edges_to_update ]_vars

\* A second call has returned two edges, as the first did, on a collection
\* that also holds a point whose flag is set.
C29_Witness ==
    /\ rl.pc = "returned"
    /\ rl.runs = 1
    /\ rl.outcome = "ok"
    /\ rl.calls = <<"scroll", "query_batch_points">>
    /\ Len(rl.edges_to_update) = 2
    /\ rl.first.edges_to_update = rl.edges_to_update
    /\ rl.first.points = points
    /\ \E p \in points : DictGet(p.payload, "sim_sync", "") = "True"

====
